---- MODULE Spec2Model ----
(***************************************************************************)
(* Model of the note mapper (app/services/mapping_service.py), the foreign *)
(* document reader's section threshold (app/services/en_doc_service.py)    *)
(* and the reconciliation engine (app/services/reconcile_service.py).      *)
(*                                                                         *)
(* Conventions of the model                                                *)
(*  - a Python str that the code inspects character by character (a note   *)
(*    number) is a sequence of one-character strings;                      *)
(*  - an Optional value is a sequence of length 0 (None) or 1;             *)
(*  - a confidence is an integer number of hundredths (1.0 is 100);        *)
(*  - an amount is an exact integer number of thousandths (1.0 is 1000);   *)
(*  - the field id of a note stands for the identity of the Python object  *)
(*    (its position in the list it was created in); the code never reads   *)
(*    it.                                                                  *)
(***************************************************************************)
EXTENDS Integers, Sequences, FiniteSets, TLC

VARIABLES
    map_pc,      \* mapping pipeline: "start", "dsd", "en", "judging", "mapped"
    sections,    \* note numbers of the sections the foreign reader detected
    kr_notes,    \* list[DSDNote] handed to map_notes
    en_doc,      \* EnDocument handed to map_notes
    judge,       \* the semantic judge call of _llm_map: request and response
    mappings,    \* list[NoteMapping] returned by map_notes
    calc_pc,     \* _calc_match on one cell: "idle", "input", "output"
    calc_in,     \* its arguments value_kr, value_en
    calc_out,    \* its result (is_match, variance, normalized value_en)
    rec_pc,      \* reconcile_all: "idle", "running", "returned"
    rec_mappings,\* its argument mappings
    tasks,       \* one run_one task per mapping, in the order of the list
    semaphore,   \* free permits of the semaphore
    completed,   \* the counter the tasks share
    progress,    \* percentages handed to progress_cb, in call order
    done_order,  \* task indexes in the order the tasks ended
    results,     \* list[ReconcileResult] returned by reconcile_all
    sem_stage,   \* stage whose semaphore is observed: "idle", "reconcile", "build"
    sem_waiting, \* number of tasks that have not entered the semaphore
    sem_single,  \* tasks inside it that await their first judge call
    sem_chunk,   \* tasks inside it that run the chunked fallback
    sem_ended,   \* tasks that have left it
    sem_free,    \* free permits
    json_pc,     \* chat_json on one response: "idle", "input", "output"
    json_in,     \* how the response text is composed
    json_out,    \* what chat_json returns or that it raises
    pat_pc,      \* _regex_find_boundaries on one list: "idle", "input", "output"
    pat_segments,\* its argument segments
    pat_out,     \* the boundaries it returns
    dsd_pc,      \* parse_dsd_file: "idle", "start", "extracted", "parsing", "returned", "raised"
    dsd_segments,\* the segments of the document
    boundaries,  \* what _llm_find_boundaries returned
    dsd_path,    \* where they come from: "none", "judged", "fallback"
    note_tasks,  \* one _llm_parse_note task per chunk, in chunk order
    dsd_notes,   \* list[DSDNote] returned by parse_dsd_file
    call_pc,          \* position of _call_llm_reconcile for one pair
    call_note,        \* the domestic note of the pair
    call_requests,    \* payloads of the judge requests, in order
    call_answers,     \* what the judge did with each request
    call_start,       \* start of _llm_chunked_call
    call_all_results, \* all_results of _llm_chunked_call
    call_responses,   \* llm_responses of _reconcile_one
    call_items,       \* items of the ReconcileResult
    bnd_pc,           \* position of _llm_find_boundaries
    bnd_segments,     \* its segments
    bnd_answer,       \* what the judge did with the request
    bnd_path,         \* judged or fallback
    bnd_out,          \* the boundaries it returns
    chat_pc,          \* position of PwCLLMClient.chat
    chat_attempt,     \* attempt of the loop
    chat_outcomes,    \* what each HTTP attempt ended with
    chat_waits        \* the seconds slept, in order

map_vars == <<map_pc, sections, kr_notes, en_doc, judge, mappings>>

calc_vars == <<calc_pc, calc_in, calc_out>>

rec_vars == <<rec_pc, rec_mappings, tasks, semaphore, completed, progress,
              done_order, results>>

sem_vars == <<sem_stage, sem_waiting, sem_single, sem_chunk, sem_ended, sem_free>>

json_vars == <<json_pc, json_in, json_out>>

pat_vars == <<pat_pc, pat_segments, pat_out>>

dsd_vars == <<dsd_pc, dsd_segments, boundaries, dsd_path, note_tasks, dsd_notes>>

call_vars == <<call_pc, call_note, call_requests, call_answers, call_start, call_all_results, call_responses, call_items>>

bnd_vars == <<bnd_pc, bnd_segments, bnd_answer, bnd_path, bnd_out>>

chat_vars == <<chat_pc, chat_attempt, chat_outcomes, chat_waits>>

\* what the steps of one part leave alone
map_others == <<calc_vars, rec_vars, sem_vars, json_vars, pat_vars, dsd_vars, call_vars, bnd_vars, chat_vars>>
calc_others == <<map_vars, rec_vars, sem_vars, json_vars, pat_vars, dsd_vars, call_vars, bnd_vars, chat_vars>>
rec_others == <<map_vars, calc_vars, sem_vars, json_vars, pat_vars, dsd_vars, call_vars, bnd_vars, chat_vars>>
sem_others == <<map_vars, calc_vars, rec_vars, json_vars, pat_vars, dsd_vars, call_vars, bnd_vars, chat_vars>>
json_others == <<map_vars, calc_vars, rec_vars, sem_vars, pat_vars, dsd_vars, call_vars, bnd_vars, chat_vars>>
pat_others == <<map_vars, calc_vars, rec_vars, sem_vars, json_vars, dsd_vars, call_vars, bnd_vars, chat_vars>>
dsd_others == <<map_vars, calc_vars, rec_vars, sem_vars, json_vars, pat_vars, call_vars, bnd_vars, chat_vars>>
call_others == <<map_vars, calc_vars, rec_vars, sem_vars, json_vars, pat_vars, dsd_vars, bnd_vars, chat_vars>>
bnd_others == <<map_vars, calc_vars, rec_vars, sem_vars, json_vars, pat_vars, dsd_vars, call_vars, chat_vars>>
chat_others == <<map_vars, calc_vars, rec_vars, sem_vars, json_vars, pat_vars, dsd_vars, call_vars, bnd_vars>>

vars == <<map_vars, calc_vars, rec_vars, sem_vars, json_vars, pat_vars, dsd_vars, call_vars, bnd_vars, chat_vars>>

None == <<>>
Some(x) == <<x>>

Max(S) == CHOOSE x \in S : \A y \in S : y <= x
Min(S) == CHOOSE x \in S : \A y \in S : x <= y

SeqsUpTo(S, n) == UNION {[1..k -> S] : k \in 0..n}

(***************************************************************************)
(* Bounds of the model.                                                    *)
(***************************************************************************)
MaxKr == 3          \* longest list of domestic notes
MaxEn == 3          \* most sections the foreign reader detects
MaxJudgeItems == 2  \* longest "mappings" list in a semantic judge response

(***************************************************************************)
(* _norm: strip, then str(int(float(s))) when float(s) parses and is       *)
(* integral.  Over the alphabet of the model (digits, ".", " ", letters)   *)
(* float() accepts digits with at most one "." and at least one digit.     *)
(***************************************************************************)
Digits == {"0", "1", "2", "3", "4", "5", "6", "7", "8", "9"}

RECURSIVE lstrip(_)
lstrip(s) == IF s # <<>> /\ Head(s) = " " THEN lstrip(Tail(s)) ELSE s

RECURSIVE rstrip(_)
rstrip(s) ==
    IF s # <<>> /\ s[Len(s)] = " " THEN rstrip(SubSeq(s, 1, Len(s) - 1)) ELSE s

strip(s) == rstrip(lstrip(s))

DotPositions(s) == {i \in 1..Len(s) : s[i] = "."}

float_parses(s) ==
    /\ s # <<>>
    /\ \A i \in 1..Len(s) : s[i] \in Digits \cup {"."}
    /\ Cardinality(DotPositions(s)) <= 1
    /\ \E i \in 1..Len(s) : s[i] \in Digits

int_digits(s) ==
    IF DotPositions(s) = {} THEN s ELSE SubSeq(s, 1, Min(DotPositions(s)) - 1)

frac_digits(s) ==
    IF DotPositions(s) = {} THEN <<>>
    ELSE SubSeq(s, Min(DotPositions(s)) + 1, Len(s))

\* f == int(f): every digit after the point is 0
float_is_integral(s) == \A i \in 1..Len(frac_digits(s)) : frac_digits(s)[i] = "0"

RECURSIVE drop_leading_zeros(_)
drop_leading_zeros(ds) ==
    IF ds # <<>> /\ Head(ds) = "0" THEN drop_leading_zeros(Tail(ds)) ELSE ds

\* str(int(f)) for the digits before the point
str_int(ds) == IF drop_leading_zeros(ds) = <<>> THEN <<"0">> ELSE drop_leading_zeros(ds)

norm(s) ==
    LET t == strip(s)
    IN  IF float_parses(t) /\ float_is_integral(t) THEN str_int(int_digits(t)) ELSE t

(***************************************************************************)
(* Data model.                                                             *)
(***************************************************************************)
DSDNote(id, number, title, items) ==
    [id |-> id, note_number |-> number, note_title |-> title, items |-> items]

EnNote(id, number, title, raw_text) ==
    [id |-> id, note_number |-> number, note_title |-> title, raw_text |-> raw_text]

NoteMapping(kr, en, confidence, method) ==
    [kr_note |-> kr, en_note |-> en, confidence |-> confidence, method |-> method]

(***************************************************************************)
(* Inputs of the mapping pipeline.                                         *)
(***************************************************************************)
\* note numbers the Note Builder may store: "1.0", " 5"
KrNumbers == {<<"1", ".", "0">>, <<" ", "5">>}

\* section numbers the foreign reader may detect (group 1 of \d+): "01", "2"
EnNumbers == {<<"0", "1">>, <<"2">>}

\* domestic numbers the judge may declare: "1.0", "5"
JudgeKrNums == {<<"1", ".", "0">>, <<"5">>}

\* foreign numbers the judge may declare: "2.0"
JudgeEnNums == {<<"2", ".", "0">>}

\* _norm on the note numbers of the model, evaluated once
norm_of == [s \in KrNumbers \cup EnNumbers \cup JudgeKrNums \cup JudgeEnNums |-> norm(s)]

KrNoteLists ==
    {[i \in 1..Len(nums) |-> DSDNote(i, nums[i], "T", <<>>)] :
        nums \in SeqsUpTo(KrNumbers, MaxKr)}

SectionLists == SeqsUpTo(EnNumbers, MaxEn)

(***************************************************************************)
(* Foreign reader: sections -> EnDocument.  A text is a sequence of line   *)
(* tokens; section i holds the line i, the document text holds them all    *)
(* after the preamble line 0.                                              *)
(***************************************************************************)
MIN_SECTIONS == 3

sections_to_notes(secs) ==
    [i \in 1..Len(secs) |-> EnNote(i, secs[i], "S", <<i>>)]

full_text(secs) == <<0>> \o [i \in 1..Len(secs) |-> i]

parse_en_mut(secs) ==
    [notes |-> IF Len(secs) < MIN_SECTIONS - 1 THEN <<>> ELSE sections_to_notes(secs),
     full_raw_text |-> full_text(secs)]

parse_en(secs) ==
    [notes |-> IF Len(sections_to_notes(secs)) < MIN_SECTIONS
               THEN <<>> ELSE sections_to_notes(secs),
     full_raw_text |-> full_text(secs)]

(***************************************************************************)
(* map_notes.                                                              *)
(***************************************************************************)
make_full_text_note(doc) ==
    EnNote(0, <<"A", "L", "L">>, "whole-document", doc.full_raw_text)

fallback_mappings(krs, doc) ==
    [i \in 1..Len(krs) |->
        NoteMapping(krs[i], Some(make_full_text_note(doc)), 50, "fallback")]

\* {_norm(n.note_number): n for n in en_doc.notes}: the last note of a key wins
en_by_num(notes) ==
    [k \in {norm_of[notes[i].note_number] : i \in 1..Len(notes)} |->
        notes[Max({i \in 1..Len(notes) : norm_of[notes[i].note_number] = k})]]

number_matched_mut(kr, d) == kr.note_number \in {d[k].note_number : k \in DOMAIN d}

\* kr_num in en_by_num, d being en_by_num
number_matched(kr, d) == norm_of[kr.note_number] \in DOMAIN d

number_mappings(krs, d) ==
    LET hit == SelectSeq(krs, LAMBDA kr : number_matched(kr, d))
    IN  [i \in 1..Len(hit) |->
            NoteMapping(hit[i], Some(d[norm_of[hit[i].note_number]]), 100, "number")]

unmatched_kr(krs, d) == SelectSeq(krs, LAMBDA kr : ~number_matched(kr, d))

\* set(en_by_num.keys()) after a discard(kr_num) for every matched kr
unmatched_en_nums(krs, d) ==
    DOMAIN d \ {norm_of[krs[i].note_number] : i \in 1..Len(krs)}

\* the list built from the set unmatched_en_nums; its order is the set's
\* iteration order and no later step depends on it, so it is kept as a set
unmatched_en(krs, d) == {d[n] : n \in unmatched_en_nums(krs, d)}

(***************************************************************************)
(* _llm_map.  A judge response is                                          *)
(*   [kind |-> "raise"]      chat_json_async raised,                       *)
(*   [kind |-> "nonobject"]  it returned a value without .get,             *)
(*   [kind |-> "object", mappings |-> items]                               *)
(* with items [kr_num, en_num (Optional; None is a null or empty value),   *)
(* confidence].                                                            *)
(***************************************************************************)
raw_mappings(resp) == IF resp.kind = "object" THEN resp.mappings ELSE <<>>

\* next((k for k in unmatched_kr if _norm(k.note_number) == kr_num), None)
find_kr(un_kr, kr_num) ==
    LET idx == {i \in 1..Len(un_kr) : norm_of[un_kr[i].note_number] = kr_num}
    IN  IF idx = {} THEN None ELSE Some(un_kr[Min(idx)])

en_by_num_llm(un_en) ==
    [k \in {norm_of[e.note_number] : e \in un_en} |->
        CHOOSE e \in un_en : norm_of[e.note_number] = k]

\* en_by_num_llm.get(en_num) if en_num else None, dl being en_by_num_llm
resolve_en(dl, en_num) ==
    IF en_num = None THEN None
    ELSE IF norm_of[en_num[1]] \in DOMAIN dl THEN Some(dl[norm_of[en_num[1]]]) ELSE None

llm_item_mapping(kr_note, dl, item) ==
    NoteMapping(kr_note, resolve_en(dl, item.en_num), item.confidence, "llm")

unmatched_mapping(kr) == NoteMapping(kr, None, 0, "unmatched")

llm_results(un_kr, un_en, resp) ==
    LET dl == en_by_num_llm(un_en)
        found == [i \in 1..Len(raw_mappings(resp)) |->
                    find_kr(un_kr, norm_of[raw_mappings(resp)[i].kr_num])]
        kept == SelectSeq([i \in 1..Len(found) |-> i], LAMBDA i : found[i] # None)
        mapped_kr_norms == {norm_of[raw_mappings(resp)[kept[j]].kr_num] : j \in 1..Len(kept)}
        rest == SelectSeq(un_kr, LAMBDA kr : norm_of[kr.note_number] \notin mapped_kr_norms)
    IN  [j \in 1..Len(kept) |->
            llm_item_mapping(found[kept[j]][1], dl, raw_mappings(resp)[kept[j]])]
        \o [i \in 1..Len(rest) |-> unmatched_mapping(rest[i])]

llm_map(un_kr, un_en, resp) ==
    IF un_en = {}
    THEN [i \in 1..Len(un_kr) |-> unmatched_mapping(un_kr[i])]
    ELSE llm_results(un_kr, un_en, resp)

\* kr_order = {kr.note_number: i}: the last index of a raw number wins
kr_order(krs) ==
    [n \in {krs[i].note_number : i \in 1..Len(krs)} |->
        Max({i \in 1..Len(krs) : krs[i].note_number = n}) - 1]

\* list.sort(key=...) is stable: equal keys keep their order
RECURSIVE sort_from(_, _, _, _)
sort_from(ms, order, k, last) ==
    IF k > last THEN <<>>
    ELSE SelectSeq(ms, LAMBDA m : order[m.kr_note.note_number] = k)
         \o sort_from(ms, order, k + 1, last)

sort_mappings(ms, krs) == sort_from(ms, kr_order(krs), 0, Len(krs) - 1)

\* map_notes up to the await of _llm_map: the number step's mappings and the
\* two lists _llm_map is called with
number_step(krs, doc) ==
    LET d == en_by_num(doc.notes)
    IN  [mappings |-> number_mappings(krs, d),
         unmatched_kr |-> unmatched_kr(krs, d),
         unmatched_en |-> unmatched_en(krs, d)]

\* map_notes after _llm_map returned llm_mappings: extend, sort, return
finish_map(step1, llm_mappings, krs) == sort_mappings(step1 \o llm_mappings, krs)

(***************************************************************************)
(* Semantic judge responses.                                               *)
(***************************************************************************)
JudgeConfidences == {50, 150}

JudgeItems ==
    [kr_num : JudgeKrNums,
     en_num : {None} \cup {Some(n) : n \in JudgeEnNums},
     confidence : JudgeConfidences]

JudgeResponses ==
    {[kind |-> "raise", mappings |-> <<>>], [kind |-> "nonobject", mappings |-> <<>>]}
    \cup {[kind |-> "object", mappings |-> ms] : ms \in SeqsUpTo(JudgeItems, MaxJudgeItems)}

NoJudge == [called |-> FALSE, kr_list |-> <<>>, en_list |-> {},
            resp |-> [kind |-> "none", mappings |-> <<>>]]

\* the mapping pipeline is not running
MapIdle ==
    /\ map_pc = "idle"
    /\ sections = <<>>
    /\ kr_notes = <<>>
    /\ en_doc = [notes |-> <<>>, full_raw_text |-> <<>>]
    /\ judge = NoJudge
    /\ mappings = <<>>

\* the cell comparison is not running
CalcIdle ==
    /\ calc_pc = "idle"
    /\ calc_in = [value_kr |-> None, value_en |-> None]
    /\ calc_out = None

\* reconcile_all is not running
RecIdle ==
    /\ rec_pc = "idle"
    /\ rec_mappings = <<>>
    /\ tasks = <<>>
    /\ semaphore = 0
    /\ completed = 0
    /\ progress = <<>>
    /\ done_order = <<>>
    /\ results = <<>>

\* chat_json is not running
JsonIdle ==
    /\ json_pc = "idle"
    /\ json_in = <<>>
    /\ json_out = <<>>

\* no semaphore is observed
SemIdle ==
    /\ sem_stage = "idle"
    /\ sem_waiting = 0
    /\ sem_single = 0
    /\ sem_chunk = 0
    /\ sem_ended = 0
    /\ sem_free = 0

(***************************************************************************)
(* The mapping pipeline: parse both documents, then map_notes.             *)
(***************************************************************************)
PatIdle ==
    /\ pat_pc = "idle"
    /\ pat_segments = <<>>
    /\ pat_out = <<>>

DsdIdle ==
    /\ dsd_pc = "idle"
    /\ dsd_segments = <<>>
    /\ boundaries = <<>>
    /\ dsd_path = "none"
    /\ note_tasks = <<>>
    /\ dsd_notes = <<>>

CallIdle ==
    /\ call_pc = "idle"
    /\ call_note = <<>>
    /\ call_requests = <<>>
    /\ call_answers = <<>>
    /\ call_start = 0
    /\ call_all_results = <<>>
    /\ call_responses = <<>>
    /\ call_items = <<>>

BndIdle ==
    /\ bnd_pc = "idle"
    /\ bnd_segments = <<>>
    /\ bnd_answer = <<>>
    /\ bnd_path = "none"
    /\ bnd_out = <<>>

ChatIdle ==
    /\ chat_pc = "idle"
    /\ chat_attempt = 0
    /\ chat_outcomes = <<>>
    /\ chat_waits = <<>>

InitMap ==
    /\ map_pc = "start"
    /\ sections = <<>>
    /\ kr_notes = <<>>
    /\ en_doc = [notes |-> <<>>, full_raw_text |-> <<>>]
    /\ judge = NoJudge
    /\ mappings = <<>>
    /\ CalcIdle
    /\ RecIdle
    /\ SemIdle
    /\ JsonIdle
    /\ PatIdle
    /\ DsdIdle
    /\ CallIdle
    /\ BndIdle
    /\ ChatIdle

ParseDsd ==
    /\ map_pc = "start"
    /\ \E krs \in KrNoteLists : kr_notes' = krs
    /\ map_pc' = "dsd"
    /\ UNCHANGED <<sections, en_doc, judge, mappings>>
    /\ UNCHANGED map_others

ParseEn ==
    /\ map_pc = "dsd"
    /\ \E secs \in SectionLists :
        /\ sections' = secs
        /\ en_doc' = parse_en(secs)
    /\ map_pc' = "en"
    /\ UNCHANGED <<kr_notes, judge, mappings>>
    /\ UNCHANGED map_others

\* en_doc.notes is empty: the full-text fallback, no judge call
MapNotesFallback ==
    /\ map_pc = "en"
    /\ en_doc.notes = <<>>
    /\ mappings' = fallback_mappings(kr_notes, en_doc)
    /\ map_pc' = "mapped"
    /\ UNCHANGED <<sections, kr_notes, en_doc, judge>>
    /\ UNCHANGED map_others

\* no unmatched domestic note, or no unmatched foreign note: no judge call
MapNotesNoJudge ==
    /\ map_pc = "en"
    /\ en_doc.notes # <<>>
    /\ LET s1 == number_step(kr_notes, en_doc)
       IN  /\ s1.unmatched_kr = <<>> \/ s1.unmatched_en = {}
           /\ mappings' = finish_map(s1.mappings,
                                     IF s1.unmatched_kr = <<>> THEN <<>>
                                     ELSE llm_map(s1.unmatched_kr, s1.unmatched_en,
                                                  NoJudge.resp),
                                     kr_notes)
    /\ map_pc' = "mapped"
    /\ UNCHANGED <<sections, kr_notes, en_doc, judge>>
    /\ UNCHANGED map_others

\* map_notes runs to the await in _llm_map: the request is with the judge
MapNotesCall ==
    /\ map_pc = "en"
    /\ en_doc.notes # <<>>
    /\ LET s1 == number_step(kr_notes, en_doc)
       IN  /\ s1.unmatched_kr # <<>> /\ s1.unmatched_en # {}
           /\ mappings' = s1.mappings
           /\ judge' = [called |-> TRUE, kr_list |-> s1.unmatched_kr,
                        en_list |-> s1.unmatched_en, resp |-> NoJudge.resp]
    /\ map_pc' = "judging"
    /\ UNCHANGED <<sections, kr_notes, en_doc>>
    /\ UNCHANGED map_others

\* the judge answers (or raises) and map_notes runs to its return
MapNotesReturn ==
    /\ map_pc = "judging"
    /\ \E resp \in JudgeResponses :
        /\ mappings' = finish_map(mappings,
                                  llm_map(judge.kr_list, judge.en_list, resp),
                                  kr_notes)
        /\ judge' = [judge EXCEPT !.resp = resp]
    /\ map_pc' = "mapped"
    /\ UNCHANGED <<sections, kr_notes, en_doc>>
    /\ UNCHANGED map_others

NextMap ==
    \/ ParseDsd
    \/ ParseEn
    \/ MapNotesFallback
    \/ MapNotesNoJudge
    \/ MapNotesCall
    \/ MapNotesReturn

SpecMap == InitMap /\ [][NextMap]_vars

(***************************************************************************)
(* Properties of map_notes.                                                *)
(***************************************************************************)
\* positions of the returned list that hold the i-th input note
MappingsOf(i) == {j \in 1..Len(mappings) : mappings[j].kr_note.id = i}

\* foreign notes whose normalized number is that of the i-th domestic note
SameNumber(i) ==
    {e \in 1..Len(en_doc.notes) :
        norm_of[en_doc.notes[e].note_number] = norm_of[kr_notes[i].note_number]}

\* C1: map_notes returns exactly one NoteMapping per input domestic note: no
\* note is dropped and none appears in two mappings, whatever the judge
\* answers and also when domestic notes share a normalized number.
C1_OneMappingPerNote ==
    map_pc = "mapped" =>
        \A i \in 1..Len(kr_notes) : Cardinality(MappingsOf(i)) = 1

\* C2: the returned list is in the input order: its i-th mapping holds the
\* i-th input note, whichever step produced it.
C2_InputOrder ==
    map_pc = "mapped" =>
        /\ Len(mappings) = Len(kr_notes)
        /\ \A i \in 1..Len(kr_notes) : mappings[i].kr_note = kr_notes[i]

\* C3: with at least one foreign note, a domestic note whose normalized number
\* is that of a foreign note is mapped to the (last) foreign note of that
\* normalized number with method "number" and confidence 1.0, and is not in
\* the list sent to the semantic judge.
C3_NumberStep ==
    (map_pc = "mapped" /\ en_doc.notes # <<>>) =>
        \A i \in 1..Len(kr_notes) :
            SameNumber(i) # {} =>
                /\ MappingsOf(i) # {}
                /\ \A j \in MappingsOf(i) :
                    /\ mappings[j].method = "number"
                    /\ mappings[j].confidence = 100
                    /\ mappings[j].en_note = Some(en_doc.notes[Max(SameNumber(i))])
                /\ \A k \in 1..Len(judge.kr_list) : judge.kr_list[k].id # i

\* the number step matched a note whose raw number differs from the foreign
\* one, a second foreign note shares that number, and the judge was called
C3_Witness ==
    /\ map_pc = "mapped"
    /\ judge.called
    /\ \E i \in 1..Len(kr_notes) :
        /\ Cardinality(SameNumber(i)) >= 2
        /\ \E j \in MappingsOf(i) : mappings[j].method = "number"

\* C4: a mapping has foreignNote = null if and only if its method is
\* "unmatched" and its confidence is 0 (a domestic note the judge leaves out,
\* answers with null or answers with a number that does not resolve ends
\* unmatched).
C4_NullIffUnmatched ==
    map_pc = "mapped" =>
        \A j \in 1..Len(mappings) :
            (mappings[j].en_note = None)
                <=> (mappings[j].method = "unmatched" /\ mappings[j].confidence = 0)

\* C5: fewer than 3 detected sections give an empty foreign note list, and
\* map_notes then maps every domestic note, without a judge call, to one and
\* the same whole-document note (raw text the full document text) with method
\* "fallback" and confidence 0.5.
C5_Fallback ==
    (map_pc = "mapped" /\ Len(sections) < 3) =>
        /\ en_doc.notes = <<>>
        /\ ~judge.called
        /\ Len(mappings) = Len(kr_notes)
        /\ \A i \in 1..Len(kr_notes) :
            /\ mappings[i].kr_note = kr_notes[i]
            /\ mappings[i].method = "fallback"
            /\ mappings[i].confidence = 50
            /\ mappings[i].en_note # None
            /\ mappings[i].en_note[1].raw_text = full_text(sections)
            /\ mappings[i].en_note = mappings[1].en_note

\* two sections were detected and two domestic notes were mapped by fallback
C5_Witness ==
    /\ map_pc = "mapped"
    /\ Len(sections) = 2
    /\ Len(kr_notes) >= 2
    /\ \A i \in 1..Len(mappings) : mappings[i].method = "fallback"

\* C6: every returned NoteMapping has a confidence in [0, 1], whatever the
\* judge puts in its confidence field.
C6_ConfidenceRange ==
    \A j \in 1..Len(mappings) :
        mappings[j].confidence >= 0 /\ mappings[j].confidence <= 100

(***************************************************************************)
(* The cell comparison of the reconciliation engine                        *)
(* (app/services/reconcile_service.py).  Amounts are Optional integers in  *)
(* thousandths, so 1,000,000 is 1000000000 and the tolerance 1.0 is 1000.  *)
(***************************************************************************)
Abs(x) == IF x < 0 THEN 0 - x ELSE x

MATCH_TOLERANCE_RATIO == 0
MATCH_TOLERANCE_ABS == 1000

\* value_en * 1000
scaled(value_en) == value_en * 1000

\* abs(value_kr - value_en * 1000) <= tol.  The product is formed only when
\* it fits 32 bits; a larger one is further than tol from every value_kr of
\* the model.
scaled_within(value_kr, value_en, tol) ==
    /\ Abs(value_en) <= 2147483647 \div 1000
    /\ Abs(value_kr - scaled(value_en)) <= tol

\* a range test that leaves both boundaries out
ratio_in_range_mut(value_kr, value_en) ==
    /\ Abs(value_en) <= (Abs(value_kr) - 1) \div 500
    /\ Abs(value_kr) \div 2000 + 1 <= Abs(value_en)

\* 500 <= abs(value_kr / value_en) <= 2000, for value_en # 0, stated without
\* the division
ratio_in_range(value_kr, value_en) ==
    /\ Abs(value_en) <= Abs(value_kr) \div 500
    /\ (Abs(value_kr) + 1999) \div 2000 <= Abs(value_en)

\* the two mismatch returns of _calc_match (step 3 and the last line)
calc_mismatch(d, f) ==
    IF f # 0 /\ Abs(d) > 0 /\ ratio_in_range(d, f)
    THEN [is_match |-> Some(FALSE), variance |-> Some(scaled(f) - d),
          value_en |-> Some(scaled(f))]
    ELSE [is_match |-> Some(FALSE), variance |-> Some(f - d),
          value_en |-> Some(f)]

\* a comparison that tries the x1000 reading before the direct one
calc_match_mut(value_kr, value_en) ==
    IF value_kr = None \/ value_en = None
    THEN [is_match |-> None, variance |-> None, value_en |-> value_en]
    ELSE LET d == value_kr[1]
             f == value_en[1]
             tol == Max({MATCH_TOLERANCE_ABS, Abs(d) * MATCH_TOLERANCE_RATIO})
         IN  IF scaled_within(d, f, tol)
             THEN [is_match |-> Some(TRUE), variance |-> Some(scaled(f) - d),
                   value_en |-> Some(scaled(f))]
             ELSE IF Abs(d - f) <= tol
             THEN [is_match |-> Some(TRUE), variance |-> Some(f - d),
                   value_en |-> Some(f)]
             ELSE calc_mismatch(d, f)

\* _calc_match: (is_match, variance, normalized_value_en)
calc_match(value_kr, value_en) ==
    IF value_kr = None \/ value_en = None
    THEN [is_match |-> None, variance |-> None, value_en |-> value_en]
    ELSE LET d == value_kr[1]
             f == value_en[1]
             tol == Max({MATCH_TOLERANCE_ABS, Abs(d) * MATCH_TOLERANCE_RATIO})
         IN  IF Abs(d - f) <= tol
             THEN [is_match |-> Some(TRUE), variance |-> Some(f - d),
                   value_en |-> Some(f)]
             ELSE IF scaled_within(d, f, tol)
             THEN [is_match |-> Some(TRUE), variance |-> Some(scaled(f) - d),
                   value_en |-> Some(scaled(f))]
             ELSE calc_mismatch(d, f)

\* domestic values: None, -1, 0, 1, 1,000,000, 1,000,001, 1,000,002,
\* 2,000,000
CalcKr ==
    {None} \cup {Some(d) : d \in {-1000, 0, 1000, 1000000000, 1000001000,
                                  1000002000, 2000000000}}

\* foreign values: None, 0, 0.001, 1, 500, 1,000, 1,000.001, 2,000,
\* 2,000.001, 999,998.5, 999,999, 999,999.5, 1,000,001
CalcEn ==
    {None} \cup {Some(f) : f \in {0, 1, 1000, 500000, 1000000, 1000001,
                                  2000000, 2000001, 999998500, 999999000,
                                  999999500, 1000001000}}

InitCalc ==
    /\ calc_pc = "input"
    /\ calc_in \in [value_kr : CalcKr, value_en : CalcEn]
    /\ calc_out = None
    /\ MapIdle
    /\ RecIdle
    /\ SemIdle
    /\ JsonIdle
    /\ PatIdle
    /\ DsdIdle
    /\ CallIdle
    /\ BndIdle
    /\ ChatIdle

CalcMatch ==
    /\ calc_pc = "input"
    /\ calc_pc' = "output"
    /\ calc_out' = Some(calc_match(calc_in.value_kr, calc_in.value_en))
    /\ UNCHANGED calc_in
    /\ UNCHANGED calc_others

NextCalc ==
    \/ CalcMatch

SpecCalc == InitCalc /\ [][NextCalc]_vars

(***************************************************************************)
(* Properties of _calc_match.                                              *)
(***************************************************************************)
\* the cell was compared and both of its values are present
Compared == calc_pc = "output" /\ calc_in.value_kr # None /\ calc_in.value_en # None

\* C10: for a domestic value d and a foreign value f, both present, the cell
\* is a match exactly when |d - f| <= 1.0 or |d - 1000 f| <= 1.0; when the
\* direct comparison holds the stored foreign value is f, and when only the
\* scaled one holds it is 1000 f.
C10_DirectThenScaled ==
    Compared =>
        LET d == calc_in.value_kr[1]
            f == calc_in.value_en[1]
            direct == Abs(d - f) <= 1000
            viaThousand ==
                \E k \in -1000..1000 :
                    (d + k) % 1000 = 0 /\ (d + k) \div 1000 = f
            out == calc_out[1]
        IN  /\ out.is_match = Some(direct \/ viaThousand)
            /\ direct => out.value_en = Some(f)
            /\ (viaThousand /\ ~direct) =>
                   /\ out.value_en = Some(1000 * f)
                   /\ out.variance = Some(1000 * f - d)
            /\ direct => out.variance = Some(f - d)

\* both comparisons hold for 1 against 0.001, and the stored value is 0.001;
\* 1,000,000 against 1,000 is stored as 1,000,000
C10_Witness ==
    /\ calc_pc = "output"
    /\ \/ /\ calc_in = [value_kr |-> Some(1000), value_en |-> Some(1)]
          /\ calc_out[1].value_en = Some(1)
       \/ /\ calc_in = [value_kr |-> Some(1000000000), value_en |-> Some(1000000)]
          /\ calc_out[1].value_en = Some(1000000000)

\* C11: a cell that neither comparison accepts is a mismatch.  If d # 0,
\* f # 0 and 500 <= |d / f| <= 2000, both boundaries included, the stored
\* foreign value is 1000 f and the variance 1000 f - d; in every other
\* case, f = 0 and d = 0 included, the stored value is f and the variance
\* f - d.  Whenever both values are present the variance is the stored
\* foreign value minus the domestic value.
C11_MismatchDisplay ==
    Compared =>
        LET d == calc_in.value_kr[1]
            f == calc_in.value_en[1]
            out == calc_out[1]
            q == Abs(d) \div Abs(f)
            thousandScale ==
                /\ f # 0 /\ d # 0
                /\ q >= 500
                /\ q < 2000 \/ (q = 2000 /\ Abs(d) % Abs(f) = 0)
        IN  /\ out.variance = Some(out.value_en[1] - d)
            /\ out.is_match = Some(FALSE) =>
                  IF thousandScale
                  THEN out.value_en = Some(1000 * f)
                  ELSE out.value_en = Some(f)

\* a mismatch was computed for 2,000,000 against 1,000 (ratio 2000, stored
\* 1,000,000, variance -1,000,000) or for 1,000,000 against 2,000 (ratio
\* 500), or for 1,000,001 against 500 (ratio above 2000, stored 500)
C11_Witness ==
    /\ calc_pc = "output"
    /\ \/ /\ calc_in = [value_kr |-> Some(2000000000), value_en |-> Some(1000000)]
          /\ calc_out[1] = [is_match |-> Some(FALSE), variance |-> Some(-1000000000),
                            value_en |-> Some(1000000000)]
       \/ /\ calc_in = [value_kr |-> Some(1000000000), value_en |-> Some(2000000)]
          /\ calc_out[1].value_en = Some(2000000000)
       \/ /\ calc_in = [value_kr |-> Some(1000001000), value_en |-> Some(500000)]
          /\ calc_out[1].value_en = Some(500000)

(***************************************************************************)
(* The reconciliation engine (app/services/reconcile_service.py): data.    *)
(* An amount_id "{item_id}_{amt_idx}" is the pair <<item_id, amt_idx>>.    *)
(* A JSON value of a judge entry is a record with its type t and, for a    *)
(* number, its value v.                                                    *)
(***************************************************************************)
DSDAmount(value) == [value |-> value]

DSDItem(item_id, is_header_only, amounts) ==
    [item_id |-> item_id, is_header_only |-> is_header_only, amounts |-> amounts]

AmountMatch(amount_id, value_kr, value_en, is_match, variance, confidence, found, llm_note) ==
    [amount_id |-> amount_id, value_kr |-> value_kr, value_en |-> value_en,
     is_match |-> is_match, variance |-> variance, confidence |-> confidence,
     found |-> found, llm_note |-> llm_note]

ReconcileItem(item_id, is_header_only, amount_matches) ==
    [item_id |-> item_id, is_header_only |-> is_header_only,
     amount_matches |-> amount_matches]

ReconcileResult(mapping, en_number, en_title, items) ==
    [note_number_kr |-> mapping.kr_note.note_number,
     note_number_en |-> en_number,
     note_title_kr |-> mapping.kr_note.note_title,
     note_title_en |-> en_title,
     note_mapping_confidence |-> mapping.confidence,
     items |-> items]

JNull == [t |-> "null", v |-> 0]
JNum(n) == [t |-> "num", v |-> n]
JStr == [t |-> "str", v |-> 0]

\* the cells of an item with their amount_id, in enumerate order
cells(item) ==
    [k \in 1..Len(item.amounts) |->
        [amount_id |-> <<item.item_id, k - 1>>, amt |-> item.amounts[k]]]

\* the cells that pass "if amt.value is None: continue"
valued_cells(item) == SelectSeq(cells(item), LAMBDA c : c.amt.value # None)

RECURSIVE build_dsd_items_payload(_)
\* _build_dsd_items_payload: the amount_id and value_kr of each entry
build_dsd_items_payload(items) ==
    IF items = <<>> THEN <<>>
    ELSE (IF Head(items).is_header_only THEN <<>>
          ELSE [k \in 1..Len(valued_cells(Head(items))) |->
                   [amount_id |-> valued_cells(Head(items))[k].amount_id,
                    value_kr |-> valued_cells(Head(items))[k].amt.value]])
         \o build_dsd_items_payload(Tail(items))

\* response_map of _build_reconcile_items: the last entry of an id wins
response_map(llm_responses) ==
    [a \in {llm_responses[k].amount_id : k \in 1..Len(llm_responses)} |->
        llm_responses[Max({k \in 1..Len(llm_responses) :
                              llm_responses[k].amount_id = a})]]

\* response_map.get answers with some entry of the response, whatever its id
map_get_mut(rm, amount_id) ==
    IF DOMAIN rm # {} THEN Some(rm[CHOOSE a \in DOMAIN rm : TRUE]) ELSE None

\* response_map.get(amount_id)
map_get(rm, amount_id) == IF amount_id \in DOMAIN rm THEN Some(rm[amount_id]) ELSE None

\* float(value_en_raw) if value_en_raw is not None else None, for a raw value
\* that float() accepts
value_en_raw_f(raw) == IF raw.t = "num" THEN Some(raw.v) ELSE None

\* float(value_en_raw) raises: the entry is found and its value is a string
\* that is not a number
amount_match_raises(llm_resp) ==
    /\ llm_resp # None
    /\ llm_resp[1].found
    /\ llm_resp[1].value_en.t = "str"

\* _build_amount_match
build_amount_match(amount_id, dsd_amt, llm_resp) ==
    IF llm_resp = None \/ ~llm_resp[1].found
    THEN AmountMatch(amount_id, dsd_amt.value, None, None, None,
                     IF llm_resp # None THEN llm_resp[1].confidence ELSE 0,
                     FALSE, None)
    ELSE LET m == calc_match(dsd_amt.value, value_en_raw_f(llm_resp[1].value_en))
         IN  AmountMatch(amount_id, dsd_amt.value, m.value_en, m.is_match,
                         m.variance, llm_resp[1].confidence, TRUE, None)

\* _make_header_only_item
make_header_only_item(item) == ReconcileItem(item.item_id, TRUE, <<>>)

\* _make_not_found_item: one AmountMatch for each amount of the item
make_not_found_item(item) ==
    ReconcileItem(item.item_id, item.is_header_only,
        [k \in 1..Len(item.amounts) |->
            AmountMatch(<<item.item_id, k - 1>>, item.amounts[k].value, None,
                        None, None, 0, FALSE, Some("no foreign note"))])

\* _build_reconcile_items raises while it builds some cell
build_raises(dsd_items, llm_responses) ==
    \E i \in 1..Len(dsd_items) :
        /\ ~dsd_items[i].is_header_only
        /\ \E k \in 1..Len(valued_cells(dsd_items[i])) :
               amount_match_raises(
                   map_get(response_map(llm_responses),
                           valued_cells(dsd_items[i])[k].amount_id))

\* _build_reconcile_items, when it does not raise
build_reconcile_items(dsd_items, llm_responses) ==
    LET rm == response_map(llm_responses)
    IN  [i \in 1..Len(dsd_items) |->
            IF dsd_items[i].is_header_only
            THEN make_header_only_item(dsd_items[i])
            ELSE ReconcileItem(dsd_items[i].item_id, FALSE,
                    [k \in 1..Len(valued_cells(dsd_items[i])) |->
                        build_amount_match(
                            valued_cells(dsd_items[i])[k].amount_id,
                            valued_cells(dsd_items[i])[k].amt,
                            map_get(rm, valued_cells(dsd_items[i])[k].amount_id))])]

\* _make_failed_result
make_failed_result(mapping) ==
    ReconcileResult(mapping,
        IF mapping.en_note # None THEN Some(mapping.en_note[1].note_number) ELSE None,
        IF mapping.en_note # None THEN Some(mapping.en_note[1].note_title) ELSE None,
        [i \in 1..Len(mapping.kr_note.items) |->
            make_not_found_item(mapping.kr_note.items[i])])

\* _reconcile_one, en_note is None
no_en_note_result(mapping) ==
    ReconcileResult(mapping, None, None,
        [i \in 1..Len(mapping.kr_note.items) |->
            make_not_found_item(mapping.kr_note.items[i])])

\* a selection that keeps the caption rows as well
non_header_items_mut(kr_note) == kr_note.items

\* non_header_items of _reconcile_one
non_header_items(kr_note) == SelectSeq(kr_note.items, LAMBDA it : ~it.is_header_only)

\* _reconcile_one, no item carries amounts
text_only_result(mapping) ==
    ReconcileResult(mapping, Some(mapping.en_note[1].note_number),
        Some(mapping.en_note[1].note_title),
        [i \in 1..Len(mapping.kr_note.items) |->
            make_header_only_item(mapping.kr_note.items[i])])

\* _reconcile_one, after the judge answered
judged_result(mapping, llm_responses) ==
    ReconcileResult(mapping, Some(mapping.en_note[1].note_number),
        Some(mapping.en_note[1].note_title),
        build_reconcile_items(mapping.kr_note.items, llm_responses))

(***************************************************************************)
(* Inputs of reconcile_all and answers of the judge.                       *)
(***************************************************************************)
MaxPairs == 2       \* longest list of mappings

MAX_CONCURRENT == 10
CHUNK_ITEM_SIZE == 3

\* a table row with a valued cell (1,000,000) and an empty cell
Cash ==
    DSDNote(1, <<"1">>, "Cash",
        <<DSDItem(0, FALSE, <<DSDAmount(Some(1000000000)), DSDAmount(None)>>)>>)

\* a note of text only
Policies == DSDNote(2, <<"2">>, "Policies", <<DSDItem(0, TRUE, <<>>)>>)

\* three caption rows, one of them with an empty cell, then a row with the
\* cell 0
Debt ==
    DSDNote(3, <<"3">>, "Debt",
        <<DSDItem(0, TRUE, <<>>), DSDItem(1, TRUE, <<DSDAmount(None)>>),
          DSDItem(2, TRUE, <<>>), DSDItem(3, FALSE, <<DSDAmount(Some(0))>>)>>)

EnglishNote(kr) == EnNote(kr.id, kr.note_number, kr.note_title, <<kr.id>>)

\* the mappings map_notes can hand over: matched by number, or unmatched
RecMappings ==
    {NoteMapping(kr, Some(EnglishNote(kr)), 100, "number") : kr \in {Cash, Policies, Debt}}
    \cup {unmatched_mapping(kr) : kr \in {Cash, Debt}}

RecMappingLists == SeqsUpTo(RecMappings, MaxPairs)

\* one entry of a judge answer
JudgeEntry(amount_id, found, value_en) ==
    [amount_id |-> amount_id, found |-> found, value_en |-> value_en,
     confidence |-> 90]

\* what an entry can say of a requested cell: not found, found without a
\* value, found with the value 1,000 or 0, found with a value that is no
\* number
EntriesFor(amount_id) ==
    {JudgeEntry(amount_id, FALSE, JNull), JudgeEntry(amount_id, TRUE, JNull),
     JudgeEntry(amount_id, TRUE, JNum(1000000)), JudgeEntry(amount_id, TRUE, JNum(0)),
     JudgeEntry(amount_id, TRUE, JStr)}

RECURSIVE AnswerLists(_)
\* the arrays the judge can answer a payload with: for each requested cell,
\* in order, one entry or none
AnswerLists(payload) ==
    IF payload = <<>> THEN {<<>>}
    ELSE {h \o t : h \in {<<>>} \cup {<<e>> : e \in EntriesFor(Head(payload).amount_id)},
                   t \in AnswerLists(Tail(payload))}

\* an entry for a cell that no payload asks about: the empty second cell of
\* the row of Cash, a cell that does not exist in Debt
StrayEntry == JudgeEntry(<<0, 1>>, TRUE, JNum(1000000))

\* chat_json_async: it raises, returns a JSON object, or returns an array;
\* the array answering a request for some cell may hold nothing but an entry
\* nobody asked for
JudgeAnswers(payload) ==
    {[kind |-> "raise", entries |-> <<>>], [kind |-> "object", entries |-> <<>>]}
    \cup {[kind |-> "list", entries |-> <<StrayEntry>>] : k \in 1..Min({1, Len(payload)})}
    \cup {[kind |-> "list", entries |-> es] : es \in AnswerLists(payload)}

\* items[start: start + CHUNK_ITEM_SIZE], start counted from 0
chunk(items, start) ==
    SubSeq(items, start + 1, Min({Len(items), start + CHUNK_ITEM_SIZE}))

\* a task: its position, the locals of _llm_chunked_call (start,
\* all_results), the payloads of its judge calls (calls), whether every
\* call so far raised (all_raised), the llm_responses of _reconcile_one, and
\* how it ended
NewTask ==
    [pc |-> "created", start |-> 0, all_results |-> <<>>, calls |-> <<>>,
     all_raised |-> TRUE, llm_responses |-> <<>>, raised |-> FALSE,
     result |-> None]

(***************************************************************************)
(* reconcile_all.  A task runs without interruption between two awaits of  *)
(* a judge call: acquiring a free semaphore and the uncontended lock does  *)
(* not suspend it.                                                         *)
(***************************************************************************)
InitRec ==
    /\ rec_pc = "running"
    /\ rec_mappings \in RecMappingLists
    /\ tasks = [i \in 1..Len(rec_mappings) |-> NewTask]
    /\ semaphore = MAX_CONCURRENT
    /\ completed = 0
    /\ progress = <<>>
    /\ done_order = <<>>
    /\ results = <<>>
    /\ MapIdle
    /\ CalcIdle
    /\ SemIdle
    /\ JsonIdle
    /\ PatIdle
    /\ DsdIdle
    /\ CallIdle
    /\ BndIdle
    /\ ChatIdle

\* a percentage that follows the pairs still to come
percent_mut(n, total) == 20 + ((total - n) * 70) \div total

\* int(20 + (completed / total) * 70)
percent(n, total) == 20 + (n * 70) \div total

\* _reconcile_one returned r in task i: leave the semaphore, then count and
\* report under the lock, then return r.  sem is the number of free permits
\* while the task holds its own.
Return(i, t, r, sem) ==
    /\ tasks' = [tasks EXCEPT ![i] = [t EXCEPT !.pc = "done", !.result = Some(r)]]
    /\ semaphore' = sem + 1
    /\ completed' = completed + 1
    /\ progress' = Append(progress, percent(completed + 1, Len(rec_mappings)))
    /\ done_order' = Append(done_order, i)
    /\ UNCHANGED <<rec_pc, rec_mappings, results>>

\* _reconcile_one raised in task i: leave the semaphore; the exception ends
\* the task before the lock
Raise(i, t, sem) ==
    /\ tasks' = [tasks EXCEPT ![i] = [t EXCEPT !.pc = "done", !.raised = TRUE]]
    /\ semaphore' = sem + 1
    /\ done_order' = Append(done_order, i)
    /\ UNCHANGED <<rec_pc, rec_mappings, completed, progress, results>>

\* the answers are complete: build the items
Build(i, t, llm_responses) ==
    IF build_raises(rec_mappings[i].kr_note.items, llm_responses)
    THEN Raise(i, [t EXCEPT !.llm_responses = llm_responses], semaphore)
    ELSE Return(i, [t EXCEPT !.llm_responses = llm_responses],
                judged_result(rec_mappings[i], llm_responses), semaphore)

\* task i starts and its mapping has no foreign note
RunNoEnNote(i) ==
    /\ rec_pc = "running" /\ tasks[i].pc = "created" /\ semaphore > 0
    /\ rec_mappings[i].en_note = None
    /\ Return(i, tasks[i], no_en_note_result(rec_mappings[i]), semaphore - 1)
    /\ UNCHANGED rec_others

\* task i starts and its note has no row with amounts
RunTextOnly(i) ==
    /\ rec_pc = "running" /\ tasks[i].pc = "created" /\ semaphore > 0
    /\ rec_mappings[i].en_note # None
    /\ non_header_items(rec_mappings[i].kr_note) = <<>>
    /\ Return(i, tasks[i], text_only_result(rec_mappings[i]), semaphore - 1)
    /\ UNCHANGED rec_others

\* task i starts and awaits _llm_single_call
RunSingleCall(i) ==
    /\ rec_pc = "running" /\ tasks[i].pc = "created" /\ semaphore > 0
    /\ rec_mappings[i].en_note # None
    /\ non_header_items(rec_mappings[i].kr_note) # <<>>
    /\ tasks' = [tasks EXCEPT ![i].pc = "single",
                     ![i].calls = <<build_dsd_items_payload(rec_mappings[i].kr_note.items)>>]
    /\ semaphore' = semaphore - 1
    /\ UNCHANGED <<rec_pc, rec_mappings, completed, progress, done_order, results>>
    /\ UNCHANGED rec_others

\* the single call returned an array
SingleAnswered(i) ==
    /\ rec_pc = "running" /\ tasks[i].pc = "single"
    /\ \E a \in JudgeAnswers(tasks[i].calls[1]) :
          /\ a.kind = "list"
          /\ Build(i, [tasks[i] EXCEPT !.all_raised = FALSE], a.entries)
    /\ UNCHANGED rec_others

\* the single call raised or returned no array: _llm_chunked_call starts.
\* A note that reaches the call has a row with amounts, so the loop runs.
SingleFailed(i) ==
    /\ rec_pc = "running" /\ tasks[i].pc = "single"
    /\ \E a \in JudgeAnswers(tasks[i].calls[1]) :
          /\ a.kind # "list"
          /\ tasks' = [tasks EXCEPT ![i].pc = "chunk", ![i].start = 0,
                           ![i].all_results = <<>>,
                           ![i].all_raised = (a.kind = "raise"),
                           ![i].calls = Append(tasks[i].calls,
                               build_dsd_items_payload(
                                   chunk(rec_mappings[i].kr_note.items, 0)))]
    /\ UNCHANGED <<rec_pc, rec_mappings, semaphore, completed, progress,
                   done_order, results>>
    /\ UNCHANGED rec_others

\* a chunk call ended: keep an array, drop anything else, then call for the
\* next chunk or build the items
ChunkReturn(i) ==
    /\ rec_pc = "running" /\ tasks[i].pc = "chunk"
    /\ \E a \in JudgeAnswers(tasks[i].calls[Len(tasks[i].calls)]) :
          LET all == IF a.kind = "list" THEN tasks[i].all_results \o a.entries
                     ELSE tasks[i].all_results
              next == tasks[i].start + CHUNK_ITEM_SIZE
              items == rec_mappings[i].kr_note.items
          IN  IF next < Len(items)
              THEN /\ tasks' = [tasks EXCEPT ![i].start = next,
                                   ![i].all_results = all,
                                   ![i].all_raised = (tasks[i].all_raised /\ a.kind = "raise"),
                                   ![i].calls = Append(tasks[i].calls,
                                       build_dsd_items_payload(chunk(items, next)))]
                   /\ UNCHANGED <<rec_pc, rec_mappings, semaphore, completed,
                                  progress, done_order, results>>
              ELSE Build(i, [tasks[i] EXCEPT !.all_results = all,
                                 !.all_raised = (tasks[i].all_raised /\ a.kind = "raise")],
                         all)
    /\ UNCHANGED rec_others

\* a variant in which one exception voids the results of all pairs
gather_results_abort(ms, ts) ==
    [k \in 1..Len(ms) |->
        IF \E j \in 1..Len(ts) : ts[j].raised THEN make_failed_result(ms[k])
        ELSE ts[k].result[1]]

\* a variant that collects the results as the tasks end
gather_results_mut(ms, ts) ==
    [k \in 1..Len(ms) |->
        IF ts[done_order[k]].raised THEN make_failed_result(ms[done_order[k]])
        ELSE ts[done_order[k]].result[1]]

\* results_raw of asyncio.gather, by task, and the loop that replaces each
\* exception
gather_results(ms, ts) ==
    [k \in 1..Len(ms) |->
        IF ts[k].raised THEN make_failed_result(ms[k]) ELSE ts[k].result[1]]

\* every task ended: gather returns and reconcile_all builds its list
Gather ==
    /\ rec_pc = "running"
    /\ \A i \in 1..Len(tasks) : tasks[i].pc = "done"
    /\ rec_pc' = "returned"
    /\ results' = gather_results(rec_mappings, tasks)
    /\ UNCHANGED <<rec_mappings, tasks, semaphore, completed, progress, done_order>>
    /\ UNCHANGED rec_others

NextRec ==
    \/ \E i \in 1..Len(tasks) : RunNoEnNote(i)
    \/ \E i \in 1..Len(tasks) : RunTextOnly(i)
    \/ \E i \in 1..Len(tasks) : RunSingleCall(i)
    \/ \E i \in 1..Len(tasks) : SingleAnswered(i)
    \/ \E i \in 1..Len(tasks) : SingleFailed(i)
    \/ \E i \in 1..Len(tasks) : ChunkReturn(i)
    \/ Gather

SpecRec == InitRec /\ [][NextRec]_vars

(***************************************************************************)
(* The semaphore of a stage: reconcile_all (reconcile_service.py) and the  *)
(* Note Builder's parse_dsd_file (dsd_service.py).  The tasks of a stage   *)
(* differ only in their position, so the state counts the tasks at each    *)
(* position.  A chunk call that is followed by the next chunk call leaves  *)
(* the task where it is, inside its permit.                                *)
(***************************************************************************)
MaxTasks == 12      \* most tasks of a stage

NOTE_BUILDER_PERMITS == 10

\* asyncio.Semaphore(...) of the stage
permits(stage) == IF stage = "reconcile" THEN MAX_CONCURRENT ELSE NOTE_BUILDER_PERMITS

\* a semaphore that lets every task in
can_acquire_mut(free) == TRUE

\* "async with semaphore" enters without waiting
can_acquire(free) == free > 0

InitSem ==
    /\ sem_stage \in {"reconcile", "build"}
    /\ sem_waiting \in 0..MaxTasks
    /\ sem_single = 0
    /\ sem_chunk = 0
    /\ sem_ended = 0
    /\ sem_free = permits(sem_stage)
    /\ MapIdle
    /\ CalcIdle
    /\ RecIdle
    /\ JsonIdle
    /\ PatIdle
    /\ DsdIdle
    /\ CallIdle
    /\ BndIdle
    /\ ChatIdle

\* a pair that needs no judge call enters, returns and leaves in one step
SemPassThrough ==
    /\ sem_stage = "reconcile"
    /\ sem_waiting > 0 /\ can_acquire(sem_free)
    /\ sem_waiting' = sem_waiting - 1
    /\ sem_ended' = sem_ended + 1
    /\ UNCHANGED <<sem_stage, sem_single, sem_chunk, sem_free>>
    /\ UNCHANGED sem_others

\* a task enters and awaits its judge call
SemEnter ==
    /\ sem_stage \in {"reconcile", "build"}
    /\ sem_waiting > 0 /\ can_acquire(sem_free)
    /\ sem_waiting' = sem_waiting - 1
    /\ sem_single' = sem_single + 1
    /\ sem_free' = sem_free - 1
    /\ UNCHANGED <<sem_stage, sem_chunk, sem_ended>>
    /\ UNCHANGED sem_others

\* the call ended and the task leaves: _llm_single_call returned a list, or
\* _llm_parse_note's call returned or raised
SemLeave ==
    /\ sem_single > 0
    /\ sem_single' = sem_single - 1
    /\ sem_ended' = sem_ended + 1
    /\ sem_free' = sem_free + 1
    /\ UNCHANGED <<sem_stage, sem_waiting, sem_chunk>>
    /\ UNCHANGED sem_others

\* _llm_single_call failed: the task starts _llm_chunked_call in its permit
SemFallback ==
    /\ sem_stage = "reconcile"
    /\ sem_single > 0
    /\ sem_single' = sem_single - 1
    /\ sem_chunk' = sem_chunk + 1
    /\ UNCHANGED <<sem_stage, sem_waiting, sem_ended, sem_free>>
    /\ UNCHANGED sem_others

\* the last chunk call ended and the task leaves
SemChunkLeave ==
    /\ sem_chunk > 0
    /\ sem_chunk' = sem_chunk - 1
    /\ sem_ended' = sem_ended + 1
    /\ sem_free' = sem_free + 1
    /\ UNCHANGED <<sem_stage, sem_waiting, sem_single>>
    /\ UNCHANGED sem_others

NextSem ==
    \/ SemPassThrough
    \/ SemEnter
    \/ SemLeave
    \/ SemFallback
    \/ SemChunkLeave

SpecSem == InitSem /\ [][NextSem]_vars

(***************************************************************************)
(* Properties of the semaphores.                                           *)
(***************************************************************************)
\* C13: in every reachable state of a stage at most 10 judge calls of the
\* stage are in flight: at most 10 pairs are inside _reconcile_one, a pair
\* in the chunked fallback counting once, and at most 10 extraction calls
\* of the Note Builder, however many tasks the stage has.
C13_AtMostTenInFlight == sem_single + sem_chunk <= 10

\* ten pairs are inside, one of them in the chunked fallback, and another
\* pair waits
C13_Witness ==
    /\ sem_stage = "reconcile"
    /\ sem_single + sem_chunk = 10
    /\ sem_chunk > 0
    /\ sem_waiting > 0

(***************************************************************************)
(* Properties of reconcile_all.                                            *)
(***************************************************************************)
\* every AmountMatch of the returned list
ReturnedMatches ==
    UNION {UNION {{results[i].items[j].amount_matches[k] :
                      k \in 1..Len(results[i].items[j].amount_matches)} :
                  j \in 1..Len(results[i].items)} :
           i \in 1..Len(results)}

\* every payload entry of every judge request made so far
RequestedCells ==
    UNION {UNION {{tasks[i].calls[c][k] : k \in 1..Len(tasks[i].calls[c])} :
                  c \in 1..Len(tasks[i].calls)} :
           i \in 1..Len(tasks)}

\* C7: reconcile_all returns exactly one ReconcileResult per input mapping,
\* and the i-th result carries the domestic note number and title of the
\* i-th mapping, in whatever order the tasks ended and whether or not some
\* of them raised.
C7_OneResultPerMappingInOrder ==
    rec_pc = "returned" =>
        /\ Len(results) = Len(rec_mappings)
        /\ \A i \in 1..Len(results) :
              /\ results[i].note_number_kr = rec_mappings[i].kr_note.note_number
              /\ results[i].note_title_kr = rec_mappings[i].kr_note.note_title

\* two different notes, the second task ended first and the first one raised
C7_Witness ==
    /\ rec_pc = "returned"
    /\ done_order = <<2, 1>>
    /\ tasks[1].raised
    /\ rec_mappings[1].kr_note # rec_mappings[2].kr_note

\* C8: no AmountMatch of any returned ReconcileResult belongs to a domestic
\* amount whose value is null, on the judged path, the path without a
\* foreign note and the path of a failed pair; and no judge request includes
\* a cell whose value is null.
C8_NoMatchForNullCell ==
    /\ \A m \in ReturnedMatches : m.value_kr # None
    /\ \A c \in RequestedCells : c.value_kr # None

\* C9: in every AmountMatch of every returned ReconcileResult, is_match is
\* null if and only if found is false, whatever the judge answered.
C9_IsMatchNullIffNotFound ==
    \A m \in ReturnedMatches : (m.is_match = None) <=> ~m.found

\* the AmountMatch records of one result
MatchesOf(r) ==
    UNION {{r.items[j].amount_matches[k] : k \in 1..Len(r.items[j].amount_matches)} :
           j \in 1..Len(r.items)}

\* what _reconcile_one returns for a mapping and the judge's answers to it
PairAlone(m, llm_responses) ==
    IF m.en_note = None THEN no_en_note_result(m)
    ELSE IF non_header_items(m.kr_note) = <<>> THEN text_only_result(m)
    ELSE judged_result(m, llm_responses)

\* the judgment of pair i failed: processing the answer raised, or every
\* judge call made for the pair raised
JudgmentFailed(i) ==
    \/ tasks[i].raised
    \/ tasks[i].calls # <<>> /\ tasks[i].all_raised

\* C12: when the judgment of a pair fails, reconcile_all still returns; every
\* amount cell of that pair's result has found = false and is_match = null,
\* and the result of every pair whose processing did not raise is what the
\* pair gives on its own for the answers it received.
C12_FailureIsolated ==
    rec_pc = "returned" =>
        \A i \in 1..Len(rec_mappings) :
            /\ JudgmentFailed(i) =>
                  \A m \in MatchesOf(results[i]) : ~m.found /\ m.is_match = None
            /\ ~tasks[i].raised =>
                  results[i] = PairAlone(rec_mappings[i], tasks[i].llm_responses)

\* processing the answer of the first pair raised, and the second pair has
\* a cell that was found and compared
C12_Witness ==
    /\ rec_pc = "returned"
    /\ Len(rec_mappings) = 2
    /\ tasks[1].raised
    /\ ~JudgmentFailed(2)
    /\ \E m \in MatchesOf(results[2]) : m.found /\ m.is_match = Some(TRUE)

\* the valued cells of the rows of a note that carry amounts: the cells a
\* judge request asks about
CellsOf(kr_note) ==
    UNION {{valued_cells(kr_note.items[j])[k] :
               k \in 1..Len(valued_cells(kr_note.items[j]))} :
           j \in {j \in 1..Len(kr_note.items) : ~kr_note.items[j].is_header_only}}

\* the ids of the entries of a response
IdsOf(llm_responses) == {llm_responses[k].amount_id : k \in 1..Len(llm_responses)}

\* the positions of the AmountMatch records of a result that carry an id
PositionsOf(r, amount_id) ==
    {<<j, k>> \in (1..Len(r.items)) \X (1..2) :
        /\ k <= Len(r.items[j].amount_matches)
        /\ r.items[j].amount_matches[k].amount_id = amount_id}

\* the entries of a response whose id is the id of a requested cell
RequestedOnly(kr_note, llm_responses) ==
    SelectSeq(llm_responses,
              LAMBDA e : e.amount_id \in {c.amount_id : c \in CellsOf(kr_note)})

\* C16: for a judged pair, every domestic cell with a value whose amount_id
\* is missing from the judge's response yields exactly one AmountMatch, with
\* found = false, is_match = null, value_en = null and confidence 0; and
\* the entries of the response whose amount_id is no requested cell produce
\* no AmountMatch: the result is the one the other entries give alone.
C16_MissingIdIsNotFound ==
    rec_pc = "returned" =>
        \A i \in 1..Len(rec_mappings) :
            tasks[i].calls # <<>> =>
                /\ \A c \in CellsOf(rec_mappings[i].kr_note) :
                       c.amount_id \notin IdsOf(tasks[i].llm_responses) =>
                           /\ Cardinality(PositionsOf(results[i], c.amount_id)) = 1
                           /\ \A m \in MatchesOf(results[i]) :
                                  m.amount_id = c.amount_id =>
                                      /\ ~m.found
                                      /\ m.is_match = None
                                      /\ m.value_en = None
                                      /\ m.confidence = 0
                /\ ~tasks[i].raised =>
                       /\ results[i] = judged_result(rec_mappings[i],
                              RequestedOnly(rec_mappings[i].kr_note,
                                            tasks[i].llm_responses))
                       /\ \A m \in MatchesOf(results[i]) :
                              m.amount_id \in
                                  {c.amount_id : c \in CellsOf(rec_mappings[i].kr_note)}

\* the judge answered the request for Cash with a single entry, for a cell
\* nobody asked about, and the requested cell came back as not found
C16_Witness ==
    /\ rec_pc = "returned"
    /\ \E i \in 1..Len(rec_mappings) :
          /\ rec_mappings[i].kr_note = Cash
          /\ tasks[i].llm_responses = <<StrayEntry>>
          /\ ~tasks[i].raised
          /\ \E m \in MatchesOf(results[i]) : m.amount_id = <<0, 0>> /\ ~m.found

\* C14: the percentages handed to progress_cb during reconcile_all never
\* decrease, in whatever order the pairs complete, and each lies in
\* [20, 90]; for an empty mapping list progress_cb is never called (and the
\* percentage, which divides by the number of mappings, is never computed).
C14_ProgressMonotonic ==
    /\ \A k \in 1..Len(progress) : 20 <= progress[k] /\ progress[k] <= 90
    /\ \A k \in 1..(Len(progress) - 1) : progress[k] <= progress[k + 1]
    /\ rec_mappings = <<>> => progress = <<>>

\* two pairs, the second completed first: 55 then 90 were reported
C14_Witness ==
    /\ rec_pc = "returned"
    /\ done_order = <<2, 1>>
    /\ progress = <<55, 90>>

(***************************************************************************)
(* chat_json and _recover_partial_json_array (app/utils/llm_client.py).    *)
(* A text is a sequence of one-character strings.  The response texts of   *)
(* the model are composed of the elements below, separated by commas.      *)
(***************************************************************************)
MaxElems == 3       \* most elements of a response text

Quote == "\""
Backslash == "\\"
Newline == "\n"
Backquote == "~"    \* stands for the backquote character
Fence == <<Backquote, Backquote, Backquote>>

ObjPlain == <<"{", Quote, "a", Quote, ":", "1", "}">>                       \* {"a":1}
ObjBraceInString == <<"{", Quote, "a", Quote, ":", Quote, "}", Quote, "}">> \* {"a":"}"}
ObjEscapedQuote ==                                                          \* {"a":"\"}"}
    <<"{", Quote, "a", Quote, ":", Quote, Backslash, Quote, "}", Quote, "}">>
ObjNested == <<"{", Quote, "a", Quote, ":">> \o ObjPlain \o <<"}">>         \* {"a":{"a":1}}
ObjTruncated == <<"{", Quote, "a", Quote, ":">>                             \* {"a":
NotJson == <<"{", "a", "}">>                                                \* {a}
StrayClose == <<"}">>                                                       \* }
Scalar == <<"1">>                                                           \* 1
InnerArray == <<"[">> \o ObjPlain \o <<"]">>                                \* [{"a":1}]

\* the elements that are JSON objects, and those that are JSON values
JsonObjects == {ObjPlain, ObjBraceInString, ObjEscapedQuote, ObjNested}
JsonValues == JsonObjects \cup {Scalar, InnerArray}
Elements == JsonValues \cup {ObjTruncated, NotJson, StrayClose}

RECURSIVE join(_, _)
\* sep.join(parts)
join(parts, sep) ==
    IF parts = <<>> THEN <<>>
    ELSE IF Len(parts) = 1 THEN parts[1]
    ELSE parts[1] \o sep \o join(Tail(parts), sep)

\* the text of a response: "[" or nothing, the elements, "]" or nothing
body_text(in) ==
    (IF in.bracket THEN <<"[">> ELSE <<>>) \o join(in.elems, <<",">>)
    \o (IF in.closed THEN <<"]">> ELSE <<>>)

\* the raw response: the text, inside a markdown fence or a fence that was
\* never closed, or bare
raw_text(in) ==
    IF in.fence = "closed" THEN Fence \o <<Newline>> \o body_text(in) \o <<Newline>> \o Fence
    ELSE IF in.fence = "open" THEN Fence \o <<Newline>> \o body_text(in)
    ELSE body_text(in)

JsonInputs ==
    [bracket : BOOLEAN, elems : SeqsUpTo(Elements, MaxElems), closed : BOOLEAN,
     fence : {"none", "closed", "open"}]

\* the texts of the model that json.loads accepts: a value, or an array of
\* values
JsonTexts ==
    JsonValues \cup
    {<<"[">> \o join(es, <<",">>) \o <<"]">> : es \in SeqsUpTo(JsonValues, MaxElems)}

\* json.loads(text) succeeds
json_loads_ok(text) == text \in JsonTexts

\* json.loads(text[obj_start: i + 1]) succeeds for a text that starts with
\* "{" and ends with its "}"
json_loads_object_ok(text) == text \in JsonObjects

Whitespace == {" ", Newline}

RECURSIVE text_lstrip(_)
text_lstrip(s) == IF s # <<>> /\ Head(s) \in Whitespace THEN text_lstrip(Tail(s)) ELSE s

RECURSIVE text_rstrip(_)
text_rstrip(s) ==
    IF s # <<>> /\ s[Len(s)] \in Whitespace
    THEN text_rstrip(SubSeq(s, 1, Len(s) - 1)) ELSE s

\* str.strip()
text_strip(s) == text_rstrip(text_lstrip(s))

\* str.startswith(prefix)
starts_with(s, prefix) ==
    Len(s) >= Len(prefix) /\ SubSeq(s, 1, Len(prefix)) = prefix

RECURSIVE split_lines(_, _)
\* s.split("\n"), cur being the line read so far
split_lines(s, cur) ==
    IF s = <<>> THEN <<cur>>
    ELSE IF Head(s) = Newline THEN <<cur>> \o split_lines(Tail(s), <<>>)
    ELSE split_lines(Tail(s), Append(cur, Head(s)))

\* chat_json: removal of the markdown code block
strip_fence(cleaned) ==
    IF starts_with(cleaned, Fence)
    THEN LET lines == Tail(split_lines(cleaned, <<>>))
             kept == IF lines # <<>> /\ text_strip(lines[Len(lines)]) = Fence
                     THEN SubSeq(lines, 1, Len(lines) - 1) ELSE lines
         IN  text_strip(join(kept, <<Newline>>))
    ELSE cleaned

ScanStart ==
    [depth |-> 0, in_string |-> FALSE, escape_next |-> FALSE, obj_start |-> None,
     objects |-> <<>>]

\* the body of the loop of _recover_partial_json_array for the character at
\* position i (counted from 1)
scan_step(text, i, st) ==
    IF st.escape_next THEN [st EXCEPT !.escape_next = FALSE]
    ELSE IF text[i] = Backslash /\ st.in_string THEN [st EXCEPT !.escape_next = TRUE]
    ELSE IF text[i] = Quote THEN [st EXCEPT !.in_string = ~st.in_string]
    ELSE IF st.in_string THEN st
    ELSE IF text[i] = "{"
    THEN [st EXCEPT !.depth = st.depth + 1,
                    !.obj_start = IF st.depth = 0 THEN Some(i) ELSE st.obj_start]
    ELSE IF text[i] = "}"
    THEN IF st.depth - 1 = 0 /\ st.obj_start # None
         THEN [st EXCEPT !.depth = 0, !.obj_start = None,
                   !.objects =
                       IF json_loads_object_ok(SubSeq(text, st.obj_start[1], i))
                       THEN Append(st.objects, SubSeq(text, st.obj_start[1], i))
                       ELSE st.objects]
         ELSE [st EXCEPT !.depth = st.depth - 1]
    ELSE st

RECURSIVE scan(_, _, _)
scan(text, i, st) ==
    IF i > Len(text) THEN st.objects ELSE scan(text, i + 1, scan_step(text, i, st))

\* _recover_partial_json_array: None, or the recovered objects, each one
\* standing for the value json.loads gives for its text
recover_partial_json_array(text) ==
    IF ~starts_with(text_strip(text), <<"[">>) THEN None
    ELSE IF scan(text, 1, ScanStart) = <<>> THEN None
    ELSE Some(scan(text, 1, ScanStart))

\* chat_json for the raw response of chat
chat_json(raw) ==
    LET cleaned == strip_fence(text_strip(raw))
    IN  IF json_loads_ok(cleaned) THEN [kind |-> "loaded", objects |-> <<>>]
        ELSE IF recover_partial_json_array(cleaned) # None
        THEN [kind |-> "recovered", objects |-> recover_partial_json_array(cleaned)[1]]
        ELSE [kind |-> "raise", objects |-> <<>>]

InitJson ==
    /\ json_pc = "input"
    /\ json_in \in JsonInputs
    /\ json_out = <<>>
    /\ MapIdle
    /\ CalcIdle
    /\ RecIdle
    /\ SemIdle
    /\ PatIdle
    /\ DsdIdle
    /\ CallIdle
    /\ BndIdle
    /\ ChatIdle

ChatJson ==
    /\ json_pc = "input"
    /\ json_pc' = "output"
    /\ json_out' = chat_json(raw_text(json_in))
    /\ UNCHANGED json_in
    /\ UNCHANGED json_others

NextJson ==
    \/ ChatJson

SpecJson == InitJson /\ [][NextJson]_vars

(***************************************************************************)
(* Properties of chat_json.                                                *)
(***************************************************************************)
RECURSIVE CompleteObjects(_)
\* the complete JSON objects of a list of elements that are not inside
\* another object and precede the point where an object is cut off
CompleteObjects(elems) ==
    IF elems = <<>> \/ Head(elems) = ObjTruncated THEN <<>>
    ELSE (IF Head(elems) \in JsonObjects THEN <<Head(elems)>>
          ELSE IF Head(elems) = InnerArray THEN <<ObjPlain>>
          ELSE <<>>)
         \o CompleteObjects(Tail(elems))

\* C15: for a response text that is not valid JSON, chat_json returns the
\* complete top-level JSON objects that precede the truncation point, in
\* their order, when the text begins with "[" and there is such an object;
\* braces and escaped quotes inside string literals do not count.  It raises
\* exactly when there is none or the text does not begin with "[".
C15_RecoversCompleteObjects ==
    (json_pc = "output" /\ json_out.kind # "loaded") =>
        IF /\ starts_with(body_text(json_in), <<"[">>)
           /\ CompleteObjects(json_in.elems) # <<>>
        THEN json_out = [kind |-> "recovered", objects |-> CompleteObjects(json_in.elems)]
        ELSE json_out.kind = "raise"

(***************************************************************************)
(* Boundary detection (app/services/dsd_service.py).  A paragraph text is  *)
(* a sequence of characters; a Hangul syllable is written by its           *)
(* romanisation ("ju" for the first syllable of the word for note).        *)
(***************************************************************************)
MaxCtx == 1         \* most segments before, and after, the examined paragraph
MaxBoundaryEntries == 2  \* longest array of a boundary judge response

Segment(type, text) == [type |-> type, text |-> text]

\* a boundary dict: note_number and note_title are keys it may lack
Boundary(segment_index, note_number, note_title) ==
    [segment_index |-> segment_index, note_number |-> Some(note_number),
     note_title |-> Some(note_title)]

\* the characters re's \w accepts in the texts of the model: Hangul
\* syllables and digits
HangulChars ==
    {"ju", "seok", "hyeon", "geum", "gam", "sa", "dae", "sang", "cham", "yeo",
     "sil", "si", "ui", "gyeon", "haek", "sim", "beom", "wi", "gi", "jun",
     "gyeong", "yeong", "jin", "chaek", "im", "in", "bo", "go", "nae", "bu",
     "tong", "je", "gye", "sok", "eop"}

WordChars == HangulChars \cup Digits

\* every character of the texts of the model
Chars == WordChars \cup Whitespace \cup {".", "("}

RECURSIVE skip(_, _, _)
\* the position after the longest run of characters of cls that starts at
\* position i (a greedy cls* of the regular expression)
skip(s, i, cls) == IF i <= Len(s) /\ s[i] \in cls THEN skip(s, i + 1, cls) ELSE i

\* s[i:], positions counted from 1
from(s, i) == SubSeq(s, i, Len(s))

all_in(s, cls) == \A k \in 1..Len(s) : s[k] \in cls

\* PAT_EXPLICIT.match(text): ^\s*ju\s*seok\s*(\d+)\s*[.\s]*(.*)\s*$ ; the
\* result is None or the groups (1) and (2)
pat_explicit(text) ==
    LET i1 == skip(text, 1, Whitespace)
        i2 == skip(text, i1 + 1, Whitespace)
        i3 == skip(text, i2 + 1, Whitespace)
        i4 == skip(text, i3, Digits)
        i5 == skip(text, i4, Whitespace \cup {"."})
        i6 == skip(text, i5, Chars \ {Newline})
    IN  IF /\ i1 <= Len(text) /\ text[i1] = "ju"
           /\ i2 <= Len(text) /\ text[i2] = "seok"
           /\ i4 > i3
           /\ all_in(from(text, i6), Whitespace)
        THEN Some([number |-> SubSeq(text, i3, i4 - 1),
                   title |-> SubSeq(text, i5, i6 - 1)])
        ELSE None

\* the separator of PAT_SIMPLE, \s*[.\s]\s* : blanks with at most one dot
\* among them, and not empty
is_separator(s) ==
    /\ s # <<>>
    /\ all_in(s, Whitespace \cup {"."})
    /\ Cardinality({k \in 1..Len(s) : s[k] = "."}) <= 1

\* PAT_SIMPLE.match(text): ^\s*(\d+)\s*[.\s]\s*([Hangul\w\s]{2,40})\s*$ ; the
\* separator x[1..p] and the title x[p+1..q] of the match the engine finds
\* first: the longest separator, then the longest title
pat_simple(text) ==
    LET i1 == skip(text, 1, Whitespace)
        i2 == skip(text, i1, Digits)
        x == from(text, i2)
        ok(p, q) ==
            /\ is_separator(SubSeq(x, 1, p))
            /\ q - p >= 2 /\ q - p <= 40
            /\ all_in(SubSeq(x, p + 1, q), WordChars \cup Whitespace)
            /\ all_in(from(x, q + 1), Whitespace)
        splits == {pq \in (1..Len(x)) \X (1..Len(x)) : ok(pq[1], pq[2])}
        p == Max({pq[1] : pq \in splits})
        q == Max({pq[2] : pq \in {s \in splits : s[1] = p}})
    IN  IF i2 > i1 /\ splits # {}
        THEN Some([number |-> SubSeq(text, i1, i2 - 1),
                   title |-> SubSeq(x, p + 1, q)])
        ELSE None

\* the alternatives of _AUDITOR_KEYWORDS: a head and a tail with \s* between
\* them (an empty tail for a plain word)
AuditorKeywords ==
    {<<<<"gam", "sa", "dae", "sang">>, <<>>>>, <<<<"gam", "sa", "cham", "yeo">>, <<>>>>,
     <<<<"gam", "sa", "sil", "si">>, <<>>>>, <<<<"gam", "sa", "ui", "gyeon">>, <<>>>>,
     <<<<"haek", "sim", "gam", "sa">>, <<>>>>, <<<<"gam", "sa", "beom", "wi">>, <<>>>>,
     <<<<"gam", "sa", "gi", "jun">>, <<>>>>,
     <<<<"gyeong", "yeong", "jin", "ui">>, <<"chaek", "im">>>>,
     <<<<"gam", "sa", "in", "ui">>, <<"chaek", "im">>>>,
     <<<<"gam", "sa", "bo", "go">>, <<>>>>, <<<<"nae", "bu", "tong", "je">>, <<>>>>,
     <<<<"gye", "sok", "gi", "eop">>, <<>>>>}

\* s has the word w at position i
has_at(s, i, w) == i + Len(w) - 1 <= Len(s) /\ SubSeq(s, i, i + Len(w) - 1) = w

\* _AUDITOR_KEYWORDS.search(title)
auditor_search(title) ==
    \E kw \in AuditorKeywords : \E i \in 1..Len(title) :
        /\ has_at(title, i, kw[1])
        /\ has_at(title, skip(title, i + Len(kw[1]), Whitespace), kw[2])

\* the titles of the second pattern are not searched for the words
header_of_mut(text) ==
    LET e == pat_explicit(text)
        m == IF e # None THEN e ELSE pat_simple(text)
    IN  IF m = None \/ (e # None /\ auditor_search(text_strip(m[1].title))) THEN None
        ELSE Some([number |-> text_strip(m[1].number), title |-> text_strip(m[1].title)])

\* what the loop over the two patterns does with a paragraph text: None, or
\* the number and the stripped title to emit
header_of(text) ==
    LET m == IF pat_explicit(text) # None THEN pat_explicit(text) ELSE pat_simple(text)
    IN  IF m = None \/ auditor_search(text_strip(m[1].title)) THEN None
        ELSE Some([number |-> text_strip(m[1].number), title |-> text_strip(m[1].title)])

RECURSIVE regex_from(_, _)
\* _regex_find_boundaries for the segments from position i (index i - 1) on
regex_from(segs, i) ==
    IF i > Len(segs) THEN <<>>
    ELSE (IF segs[i].type = "p" /\ header_of(segs[i].text) # None
          THEN <<Boundary(i - 1, header_of(segs[i].text)[1].number,
                          header_of(segs[i].text)[1].title)>>
          ELSE <<>>) \o regex_from(segs, i + 1)

\* _regex_find_boundaries
regex_find_boundaries(segs) == regex_from(segs, 1)

(***************************************************************************)
(* Paragraph texts of the model: a prefix, a number, a separator, a title. *)
(* _traverse strips a text and writes every run of blanks as one space,    *)
(* keeps no text of fewer than two characters, and _extract_segments drops *)
(* a segment equal to the one before it.                                   *)
(***************************************************************************)
OpinionWord == <<"gam", "sa", "ui", "gyeon">>
DutyWords == <<"gyeong", "yeong", "jin", "ui", " ", "chaek", "im">>

TextPrefixes == {<<>>, <<"ju", "seok">>, <<"ju", " ", "seok", " ">>}
TextNumbers == {<<>>, <<"1">>, <<"1", "2">>}
TextSeparators == {<<>>, <<".">>, <<" ">>, <<" ", ".", " ">>, <<".", " ">>}
TextTitles ==
    {<<>>, <<"hyeon">>, <<"hyeon", "geum">>, <<"hyeon", " ", "geum">>, OpinionWord,
     <<"hyeon">> \o OpinionWord, DutyWords, <<"hyeon", "(", "geum">>,
     <<"hyeon", "(">> \o OpinionWord, <<"gam", "sa">>}

\* re.sub(r"\s+", " ", text.strip()) leaves the text as it is
is_normalized(t) ==
    /\ text_strip(t) = t
    /\ \A k \in 1..Len(t) : t[k] # Newline
    /\ \A k \in 1..(Len(t) - 1) : ~(t[k] = " " /\ t[k + 1] = " ")

ParagraphTexts ==
    {t \in {a \o b \o c \o d : a \in TextPrefixes, b \in TextNumbers,
                                 c \in TextSeparators, d \in TextTitles} :
        Len(t) > 1 /\ is_normalized(t)}

\* no segment equals the one before it
is_deduped(segs) == \A k \in 1..(Len(segs) - 1) : segs[k] # segs[k + 1]

Table == Segment("table", <<"1", " ", "hyeon", "geum">>)
CashHeader == Segment("p", <<"ju", "seok", "1", " ", "hyeon", "geum">>)
OpinionHeader == Segment("p", <<"1", ".">> \o OpinionWord)

\* segments around the examined paragraph
CtxSegments == {Table, CashHeader, OpinionHeader}

InitPat ==
    /\ pat_pc = "input"
    /\ pat_segments \in {pre \o <<Segment("p", t)>> \o post :
                            pre \in SeqsUpTo(CtxSegments, MaxCtx),
                            t \in ParagraphTexts,
                            post \in SeqsUpTo(CtxSegments, MaxCtx)}
    /\ is_deduped(pat_segments)
    /\ pat_out = <<>>
    /\ MapIdle
    /\ CalcIdle
    /\ RecIdle
    /\ SemIdle
    /\ JsonIdle
    /\ DsdIdle
    /\ CallIdle
    /\ BndIdle
    /\ ChatIdle

\* _regex_find_boundaries(segments)
RegexFindBoundaries ==
    /\ pat_pc = "input"
    /\ pat_pc' = "output"
    /\ pat_out' = regex_find_boundaries(pat_segments)
    /\ UNCHANGED pat_segments
    /\ UNCHANGED pat_others

NextPat == RegexFindBoundaries

SpecPat == InitPat /\ [][NextPat]_vars

\* the boundaries emitted for the segment at position i
EmittedAt(i) == {k \in 1..Len(pat_out) : pat_out[k].segment_index = i - 1}

\* the paragraph at position i matches one of the two header patterns
MatchesPattern(i) ==
    /\ pat_segments[i].type = "p"
    /\ pat_explicit(pat_segments[i].text) # None \/ pat_simple(pat_segments[i].text) # None

\* C17: on the fallback path no paragraph with auditor's-report vocabulary
\* in its text is emitted as a boundary, whichever of the two patterns it
\* matches, and every other paragraph that matches one of the patterns is
\* emitted exactly once.
C17_AuditorTitlesNeverEmitted ==
    pat_pc = "output" =>
        \A i \in 1..Len(pat_segments) :
            /\ pat_segments[i].type = "p" /\ auditor_search(pat_segments[i].text) =>
                  EmittedAt(i) = {}
            /\ MatchesPattern(i) /\ ~auditor_search(pat_segments[i].text) =>
                  Cardinality(EmittedAt(i)) = 1

\* a paragraph of the second pattern with an auditor's title was left out,
\* one of the first pattern too, and a note header was emitted
C17_Witness ==
    /\ pat_pc = "output"
    /\ \E i, j, k \in 1..Len(pat_segments) :
          /\ pat_simple(pat_segments[i].text) # None
          /\ auditor_search(pat_segments[i].text)
          /\ pat_explicit(pat_segments[j].text) # None
          /\ auditor_search(pat_segments[j].text)
          /\ MatchesPattern(k)
          /\ Cardinality(EmittedAt(k)) = 1

(***************************************************************************)
(* parse_dsd_file (app/services/dsd_service.py): boundaries, chunks, one   *)
(* extraction task per chunk, the notes.  A unit is written by its         *)
(* romanisation ("won", "cheonwon" for thousands, "baekmanwon" for         *)
(* millions); the attributes of a cell are the set of their keys.          *)
(***************************************************************************)
MaxSegs == 2        \* longest list of segments of a document

\* an entry of the array the boundary judge answers with: a JSON object
\* with the keys it has, or something that is no object
BoundaryEntry(kind, segment_index, note_number) ==
    [kind |-> kind, segment_index |-> segment_index, note_number |-> note_number,
     note_title |-> None]

\* b.get raises: the entry is no object
entry_raises(b) == b.kind # "dict"

\* isinstance(b.get("segment_index"), int) and 0 <= b["segment_index"] < len(segments)
entry_valid(b, segments) ==
    /\ b.segment_index.t = "num"
    /\ 0 <= b.segment_index.v
    /\ b.segment_index.v < Len(segments)

\* a valid entry as a boundary: its keys, segment_index as a number
boundary_of(b) ==
    [segment_index |-> b.segment_index.v, note_number |-> b.note_number,
     note_title |-> b.note_title]

RECURSIVE insert_sorted(_, _)
\* b put after every boundary of the sorted list bs whose index is not larger
insert_sorted(bs, b) ==
    IF bs = <<>> THEN <<b>>
    ELSE IF Head(bs).segment_index <= b.segment_index
         THEN <<Head(bs)>> \o insert_sorted(Tail(bs), b)
         ELSE <<b>> \o bs

\* the paragraphs handed to the boundary judge
para_lines(segments) == SelectSeq(segments, LAMBDA seg : seg.type = "p")

\* the judge's answer (answer.kind is "raise", "object" or "list") gives the
\* boundaries: it is a list, reading its entries does not raise, and one of
\* them is valid
is_judged(segments, answer) ==
    /\ answer.kind = "list"
    /\ \A k \in 1..Len(answer.entries) : ~entry_raises(answer.entries[k])
    /\ \E k \in 1..Len(answer.entries) : entry_valid(answer.entries[k], segments)

RECURSIVE sorted_by_index(_)
\* sorted(valid, key=lambda x: x["segment_index"]): equal keys keep their order
sorted_by_index(bs) ==
    IF bs = <<>> THEN <<>>
    ELSE insert_sorted(sorted_by_index(SubSeq(bs, 1, Len(bs) - 1)), bs[Len(bs)])

\* the valid entries are returned in the order of the answer
boundaries_after_mut(segments, answer) ==
    LET valid == SelectSeq(answer.entries, LAMBDA b : entry_valid(b, segments))
    IN  IF is_judged(segments, answer)
        THEN [k \in 1..Len(valid) |-> boundary_of(valid[k])]
        ELSE regex_find_boundaries(segments)

\* _llm_find_boundaries once the judge answered: the sorted valid entries,
\* or the fallback
boundaries_after(segments, answer) ==
    LET valid == SelectSeq(answer.entries, LAMBDA b : entry_valid(b, segments))
    IN  IF is_judged(segments, answer)
        THEN sorted_by_index([k \in 1..Len(valid) |-> boundary_of(valid[k])])
        ELSE regex_find_boundaries(segments)

DecimalDigits == <<"0", "1", "2", "3", "4", "5", "6", "7", "8", "9">>

RECURSIVE str_nat(_)
\* str(n) for n >= 0
str_nat(n) ==
    IF n < 10 THEN <<DecimalDigits[n + 1]>>
    ELSE str_nat(n \div 10) \o <<DecimalDigits[(n % 10) + 1]>>

\* chunks that all run to the end of the document
chunk_of_mut(segments, bs, i) ==
    [number |-> IF bs[i].note_number # None THEN bs[i].note_number[1] ELSE str_nat(i),
     title |-> IF bs[i].note_title # None THEN bs[i].note_title[1] ELSE <<>>,
     segs |-> SubSeq(segments, bs[i].segment_index + 1, Len(segments))]

\* parse_dsd_file, step 3: the chunk of the i-th boundary (i from 1)
chunk_of(segments, bs, i) ==
    LET start == bs[i].segment_index
        end == IF i < Len(bs) THEN bs[i + 1].segment_index ELSE Len(segments)
    IN  [number |-> IF bs[i].note_number # None THEN bs[i].note_number[1] ELSE str_nat(i),
         title |-> IF bs[i].note_title # None THEN bs[i].note_title[1] ELSE <<>>,
         segs |-> SubSeq(segments, start + 1, end)]

note_chunks(segments, bs) == [i \in 1..Len(bs) |-> chunk_of(segments, bs, i)]

\* DSDAmount, DSDItem and DSDNote as _build_dsd_note fills them
BuiltAmount(attributes, value) == [attributes |-> attributes, value |-> value]

BuiltItem(item_id, is_header_only, amounts) ==
    [item_id |-> item_id, is_header_only |-> is_header_only, amounts |-> amounts]

BuiltNote(note_number, note_title, unit, items) ==
    [note_number |-> note_number, note_title |-> note_title, unit |-> unit,
     items |-> items]

\* _to_float: None for null and for a string that is no number
to_float(val) == IF val.t = "num" THEN Some(val.v) ELSE None

\* normalize_unit of amount_utils (amounts in thousandths)
normalize_unit(amount, unit) ==
    IF unit = "baekmanwon" THEN amount * 1000000
    ELSE IF unit = "cheonwon" THEN amount * 1000
    ELSE amount

\* _build_dsd_note raises inside its try: the response is no object, its
\* items cannot be iterated (an empty JSON object can: it has no element),
\* or an item or an amount is no object
build_note_fails(data) ==
    \/ data.kind # "dict"
    \/ data.items.kind \notin {"list", "map"}
    \/ \E k \in 1..Len(data.items.elems) :
          \/ data.items.elems[k].kind # "dict"
          \/ \E a \in 1..Len(data.items.elems[k].amounts) :
                data.items.elems[k].amounts[a].kind # "dict"

\* every response is taken for a note
build_note_fails_mut(data) == FALSE

\* the DSDItem of the k-th item_data
built_item(elems, k) ==
    BuiltItem(IF elems[k].item_id # None THEN elems[k].item_id[1] ELSE k - 1,
              elems[k].is_header_only,
              [a \in 1..Len(elems[k].amounts) |->
                  BuiltAmount(elems[k].amounts[a].attributes,
                              to_float(elems[k].amounts[a].value))])

\* _build_dsd_note: None, or the note
build_dsd_note(data, fallback_number, fallback_title) ==
    IF build_note_fails(data) THEN None
    ELSE Some(BuiltNote(
             IF data.note_number # None /\ data.note_number[1] # <<>>
             THEN data.note_number[1] ELSE fallback_number,
             fallback_title,
             IF data.unit # None THEN data.unit[1] ELSE "won",
             [k \in 1..Len(data.items.elems) |-> built_item(data.items.elems, k)]))

\* _llm_parse_note once the judge answered (answer.kind is "raise" or "data")
parse_note_after(chunk_i, answer) ==
    IF answer.kind = "raise" THEN None
    ELSE build_dsd_note(answer.data, chunk_i.number, chunk_i.title)

\* str.isdigit() and int() of a note number
is_digit(s) == s # <<>> /\ all_in(s, Digits)

RECURSIVE int_of(_)
int_of(s) ==
    IF s = <<>> THEN 0
    ELSE 10 * int_of(SubSeq(s, 1, Len(s) - 1))
         + (CHOOSE d \in 0..9 : DecimalDigits[d + 1] = s[Len(s)])

\* the key of notes.sort
sort_key(n) == IF is_digit(n.note_number) THEN int_of(n.note_number) ELSE 999

RECURSIVE insert_note(_, _)
insert_note(ns, n) ==
    IF ns = <<>> THEN <<n>>
    ELSE IF sort_key(Head(ns)) <= sort_key(n)
         THEN <<Head(ns)>> \o insert_note(Tail(ns), n)
         ELSE <<n>> \o ns

RECURSIVE sort_notes(_)
\* notes.sort(key=...): equal keys keep their order
sort_notes(ns) ==
    IF ns = <<>> THEN <<>>
    ELSE insert_note(sort_notes(SubSeq(ns, 1, Len(ns) - 1)), ns[Len(ns)])

RECURSIVE collect_notes(_)
\* the results of gather that are a note, in task order
collect_notes(rs) ==
    IF rs = <<>> THEN <<>>
    ELSE (IF Head(rs).result # None THEN <<Head(rs).result[1]>> ELSE <<>>)
         \o collect_notes(Tail(rs))

\* one task without a note leaves nothing of the others
gathered_notes_mut(rs) ==
    IF \E i \in 1..Len(rs) : rs[i].result = None THEN <<>>
    ELSE sort_notes(collect_notes(rs))

\* parse_dsd_file after gather: the notes of the tasks, sorted by number
gathered_notes(rs) == sort_notes(collect_notes(rs))

(***************************************************************************)
(* Documents, and answers of the two judges.                               *)
(***************************************************************************)
\* a paragraph that is no header
Body == Segment("p", <<"hyeon", "geum", "(">>)

DsdSegmentLists ==
    {segs \in SeqsUpTo({Table, CashHeader, OpinionHeader, Body}, MaxSegs) :
        is_deduped(segs)}

\* the note number the judge gives the segment with index k: "10" for the
\* first segment, so that the order of the numbers is not that of the
\* segments
NumberAt(k) == IF k = 0 THEN <<"1", "0">> ELSE str_nat(k)

\* entries of a boundary answer: an index below, in and above the range,
\* an entry without a number, an index that is a string, an entry without
\* an index, and an entry that is no object
BoundaryEntries(segments) ==
    {BoundaryEntry("dict", JNum(-1), Some(<<"1">>))}
    \cup {BoundaryEntry("dict", JNum(k), Some(NumberAt(k))) : k \in 0..Len(segments)}
    \cup {BoundaryEntry("dict", JNum(0), None), BoundaryEntry("dict", JStr, Some(<<"1">>)),
          BoundaryEntry("dict", JNull, Some(<<"1">>)), BoundaryEntry("scalar", JNull, None)}

\* chat_json for the boundary request: it raises, returns a JSON object, or
\* returns an array
BoundaryAnswers(segments) ==
    {[kind |-> "raise", entries |-> <<>>], [kind |-> "object", entries |-> <<>>]}
    \cup {[kind |-> "list", entries |-> es] :
             es \in SeqsUpTo(BoundaryEntries(segments), MaxBoundaryEntries)}

AmountData(attributes, value) ==
    [kind |-> "dict", attributes |-> attributes, value |-> value]

ItemData(item_id, is_header_only, amounts) ==
    [kind |-> "dict", item_id |-> item_id, is_header_only |-> is_header_only,
     amounts |-> amounts]

NoteData(note_number, unit, items) ==
    [kind |-> "dict", note_number |-> note_number, unit |-> unit, items |-> items]

\* an extraction in thousands, without a note number: a caption row, then a
\* row with the amount 1, the ratio 0.5 and an empty cell
DataThousands ==
    NoteData(None, Some("cheonwon"),
        [kind |-> "list",
         elems |-> <<ItemData(None, TRUE, <<>>),
                     ItemData(None, FALSE,
                         <<AmountData({"period"}, JNum(1000)),
                           AmountData({"ratio"}, JNum(500)),
                           AmountData({"period"}, JNull)>>)>>])

\* an extraction without a unit, with the note number 3: a row with the
\* amount 2 and a cell whose value is a string that is no number
DataWon ==
    NoteData(Some(<<"3">>), None,
        [kind |-> "list",
         elems |-> <<ItemData(Some(5), FALSE,
                         <<AmountData({}, JNum(2000)), AmountData({}, JStr)>>)>>])

\* a response that is an array, and objects whose items are null or hold
\* something that is no object
DataArray == [kind |-> "list"]
DataNullItems == NoteData(Some(<<"4">>), None, [kind |-> "null", elems |-> <<>>])
DataScalarItem ==
    NoteData(Some(<<"4">>), None, [kind |-> "list", elems |-> <<[kind |-> "scalar"]>>])

\* an object whose items are an empty object: the loop over them runs no
\* round and a note without rows is built
DataEmptyMap == NoteData(Some(<<"4">>), None, [kind |-> "map", elems |-> <<>>])

\* chat_json for the extraction request of a note
NoteAnswers ==
    {[kind |-> "raise"]}
    \cup {[kind |-> "data", data |-> d] :
             d \in {DataThousands, DataWon, DataArray, DataNullItems, DataScalarItem,
                    DataEmptyMap}}

\* an extraction task: "pending", or how it ended ("raised", "invalid",
\* "built"), the judge's answer and what _llm_parse_note returned
PendingTask == [how |-> "pending", answer |-> None, result |-> None]

(***************************************************************************)
(* parse_dsd_file.  The semaphore of the tasks is that of SpecSem; the     *)
(* documents of this part have fewer chunks than it has permits.           *)
(***************************************************************************)
InitDsd ==
    /\ dsd_pc = "start"
    /\ dsd_segments = <<>>
    /\ boundaries = <<>>
    /\ dsd_path = "none"
    /\ note_tasks = <<>>
    /\ dsd_notes = <<>>
    /\ MapIdle
    /\ CalcIdle
    /\ RecIdle
    /\ SemIdle
    /\ JsonIdle
    /\ PatIdle
    /\ CallIdle
    /\ BndIdle
    /\ ChatIdle

\* _extract_segments returns
ExtractSegments ==
    /\ dsd_pc = "start"
    /\ dsd_segments' \in DsdSegmentLists
    /\ dsd_pc' = "extracted"
    /\ UNCHANGED <<boundaries, dsd_path, note_tasks, dsd_notes>>
    /\ UNCHANGED dsd_others

\* _extract_segments raises: parse_dsd_file raises RuntimeError
ExtractFails ==
    /\ dsd_pc = "start"
    /\ dsd_pc' = "raised"
    /\ UNCHANGED <<dsd_segments, boundaries, dsd_path, note_tasks, dsd_notes>>
    /\ UNCHANGED dsd_others

\* the boundaries bs are known: return [] when there is none, else build
\* the chunks and create one task for each
Dispatch(bs, path) ==
    /\ boundaries' = bs
    /\ dsd_path' = path
    /\ dsd_pc' = IF bs = <<>> THEN "returned" ELSE "parsing"
    /\ note_tasks' = [i \in 1..Len(bs) |-> PendingTask]
    /\ UNCHANGED <<dsd_segments, dsd_notes>>

\* _llm_find_boundaries without a paragraph: no judge call, no boundary
FindNoParagraphs ==
    /\ dsd_pc = "extracted"
    /\ para_lines(dsd_segments) = <<>>
    /\ Dispatch(<<>>, "none")
    /\ UNCHANGED dsd_others

\* the boundary judge answered with an array that has a valid entry
FindJudged ==
    /\ dsd_pc = "extracted"
    /\ para_lines(dsd_segments) # <<>>
    /\ \E answer \in BoundaryAnswers(dsd_segments) :
          /\ is_judged(dsd_segments, answer)
          /\ Dispatch(boundaries_after(dsd_segments, answer), "judged")
    /\ UNCHANGED dsd_others

\* the boundary judge raised or answered with nothing valid: the patterns
FindFallback ==
    /\ dsd_pc = "extracted"
    /\ para_lines(dsd_segments) # <<>>
    /\ \E answer \in BoundaryAnswers(dsd_segments) :
          /\ ~is_judged(dsd_segments, answer)
          /\ Dispatch(boundaries_after(dsd_segments, answer), "fallback")
    /\ UNCHANGED dsd_others

\* task i: the extraction judge raised, _llm_parse_note returns None
ParseNoteRaised(i) ==
    /\ dsd_pc = "parsing"
    /\ note_tasks[i].how = "pending"
    /\ note_tasks' = [note_tasks EXCEPT ![i] =
           [how |-> "raised", answer |-> Some([kind |-> "raise"]), result |-> None]]
    /\ UNCHANGED <<dsd_pc, dsd_segments, boundaries, dsd_path, dsd_notes>>
    /\ UNCHANGED dsd_others

\* task i: the extraction judge answered, _build_dsd_note runs
ParseNoteAnswered(i) ==
    /\ dsd_pc = "parsing"
    /\ note_tasks[i].how = "pending"
    /\ \E answer \in NoteAnswers :
          /\ answer.kind = "data"
          /\ LET r == parse_note_after(chunk_of(dsd_segments, boundaries, i), answer)
             IN  note_tasks' = [note_tasks EXCEPT ![i] =
                     [how |-> IF r = None THEN "invalid" ELSE "built",
                      answer |-> Some(answer), result |-> r]]
    /\ UNCHANGED <<dsd_pc, dsd_segments, boundaries, dsd_path, dsd_notes>>
    /\ UNCHANGED dsd_others

\* gather returned: keep the notes, sort them by number
GatherNotes ==
    /\ dsd_pc = "parsing"
    /\ \A i \in 1..Len(note_tasks) : note_tasks[i].how # "pending"
    /\ dsd_notes' = gathered_notes(note_tasks)
    /\ dsd_pc' = "returned"
    /\ UNCHANGED <<dsd_segments, boundaries, dsd_path, note_tasks>>
    /\ UNCHANGED dsd_others

NextDsd ==
    \/ ExtractSegments
    \/ ExtractFails
    \/ FindNoParagraphs
    \/ FindJudged
    \/ FindFallback
    \/ \E i \in 1..Len(note_tasks) : ParseNoteRaised(i)
    \/ \E i \in 1..Len(note_tasks) : ParseNoteAnswered(i)
    \/ GatherNotes

SpecDsd == InitDsd /\ [][NextDsd]_vars

C19_AmountsScaledByUnit ==
    \A i \in 1..Len(note_tasks) :
        note_tasks[i].how = "built" =>
            LET data == note_tasks[i].answer[1].data
                note == note_tasks[i].result[1]
            IN  \A k \in 1..Len(data.items.elems) :
                    \A a \in 1..Len(data.items.elems[k].amounts) :
                        LET raw == to_float(data.items.elems[k].amounts[a].value)
                            cell == note.items[k].amounts[a]
                        IN  raw # None =>
                                IF "ratio" \in data.items.elems[k].amounts[a].attributes
                                THEN /\ cell.value = raw
                                     /\ "_is_pct" \in cell.attributes
                                ELSE cell.value = Some(normalize_unit(raw[1], note.unit))

\* the responses of the model whose conversion to a note fails: an array,
\* items that are null, an item that is no object
InvalidData == {DataArray, DataNullItems, DataScalarItem}

\* the extraction of task i raised or its response is invalid
ExtractionFailed(i) ==
    \/ note_tasks[i].answer[1].kind = "raise"
    \/ note_tasks[i].answer[1].data \in InvalidData

\* how many entries of a list are the note n
CountOf(ns, n) == Cardinality({k \in 1..Len(ns) : ns[k] = n})

ReturnedItems ==
    UNION {{results[i].items[j] : j \in 1..Len(results[i].items)} :
           i \in 1..Len(results)}

\* C21: every item of every returned ReconcileResult has matches consistent
\* with its header-only flag: an item with is_header_only = true has an
\* empty match list, on the judged path, the text-only path, the path
\* without a foreign note and the path of a failed pair, for every item the
\* Note Builder can produce.
C21_HeaderOnlyHasNoMatches ==
    \A it \in ReturnedItems : it.is_header_only => it.amount_matches = <<>>

\* the positions <<item, cell>> of the AmountMatch records of a result
MatchPositions(r) ==
    UNION {{<<j, k>> : k \in 1..Len(r.items[j].amount_matches)} : j \in 1..Len(r.items)}

\* ReconcileResult.total_amounts: the cells of the items that are not
\* header-only
total_amounts(r) ==
    Cardinality({p \in MatchPositions(r) : ~r.items[p[1]].is_header_only})

\* a count of every cell that is not a mismatch
matched_count_mut(r) ==
    Cardinality({p \in MatchPositions(r) :
                    r.items[p[1]].amount_matches[p[2]].is_match # Some(FALSE)})

\* ReconcileResult.matched_count: the cells of all items with is_match True
matched_count(r) ==
    Cardinality({p \in MatchPositions(r) :
                    r.items[p[1]].amount_matches[p[2]].is_match = Some(TRUE)})

\* ReconcileResult.match_rate, in thousandths
match_rate(r) ==
    IF total_amounts(r) # 0 THEN (matched_count(r) * 1000) \div total_amounts(r) ELSE 0

\* C22: for every ReconcileResult the engine produces, matched_count is at
\* most total_amounts (total_amounts counts only the cells of items that are
\* not header-only, matched_count the cells of all items with is_match
\* true), the match rate lies in [0, 1], and the match rate is 0 when
\* total_amounts is 0.
C22_CountersConsistent ==
    \A i \in 1..Len(results) :
        /\ matched_count(results[i]) <= total_amounts(results[i])
        /\ 0 <= match_rate(results[i]) /\ match_rate(results[i]) <= 1000
        /\ total_amounts(results[i]) = 0 => match_rate(results[i]) = 0

\* one result holds a cell of a header-only row, which total_amounts leaves
\* out, and the other has its only cell matched
C22_Witness ==
    /\ rec_pc = "returned"
    /\ \E i \in 1..Len(results) :
          total_amounts(results[i]) < Cardinality(MatchPositions(results[i]))
    /\ \E i \in 1..Len(results) :
          /\ matched_count(results[i]) = 1
          /\ match_rate(results[i]) = 1000

\* the AmountMatch _make_not_found_item gives a cell
IsNotFoundCell(m) ==
    /\ ~m.found
    /\ m.is_match = None
    /\ m.value_en = None
    /\ m.llm_note = Some("no foreign note")

\* every row of the note is a caption row
TextOnly(kr_note) == \A j \in 1..Len(kr_note.items) : kr_note.items[j].is_header_only

\* C23: for a mapping without a foreign note, or whose domestic note has no
\* row with amounts, no judge call is made; in the first case every emitted
\* cell has found = false, is_match = null, value_en = null and the fixed
\* note, in the second every item is emitted header-only without matches.
\* A judge call is made only when a foreign note is present and some row
\* carries amounts.
C23_NoCallWithoutJudgeableRows ==
    \A i \in 1..Len(tasks) :
        /\ (rec_mappings[i].en_note = None \/ TextOnly(rec_mappings[i].kr_note)) =>
               tasks[i].calls = <<>>
        /\ (tasks[i].pc = "done" /\ rec_mappings[i].en_note = None) =>
               /\ tasks[i].result # None
               /\ Len(tasks[i].result[1].items) = Len(rec_mappings[i].kr_note.items)
               /\ \A m \in MatchesOf(tasks[i].result[1]) : IsNotFoundCell(m)
        /\ (tasks[i].pc = "done" /\ rec_mappings[i].en_note # None
              /\ TextOnly(rec_mappings[i].kr_note)) =>
               /\ tasks[i].result # None
               /\ Len(tasks[i].result[1].items) = Len(rec_mappings[i].kr_note.items)
               /\ \A j \in 1..Len(tasks[i].result[1].items) :
                      /\ tasks[i].result[1].items[j].is_header_only
                      /\ tasks[i].result[1].items[j].amount_matches = <<>>
        /\ tasks[i].calls # <<>> =>
               /\ rec_mappings[i].en_note # None
               /\ ~TextOnly(rec_mappings[i].kr_note)

\* a pair without a foreign note whose cells were emitted and a pair of a
\* text-only note have both ended, neither with a judge call
C23_Witness ==
    /\ rec_pc = "returned"
    /\ Len(rec_mappings) = 2
    /\ rec_mappings[1].en_note = None
    /\ MatchesOf(results[1]) # {}
    /\ rec_mappings[2].en_note # None
    /\ TextOnly(rec_mappings[2].kr_note)
    /\ tasks[1].calls = <<>> /\ tasks[2].calls = <<>>

(***************************************************************************)
(* _call_llm_reconcile and _build_reconcile_items for one pair             *)
(* (app/services/reconcile_service.py), with every request and every       *)
(* answer of the judge on record.                                          *)
(***************************************************************************)
MaxItems == 7       \* most rows of a note

\* two rows to which the extraction judge gave the same item_id
Twins ==
    DSDNote(4, <<"4">>, "Twins",
        <<DSDItem(0, FALSE, <<DSDAmount(Some(1000000000))>>),
          DSDItem(0, FALSE, <<DSDAmount(Some(0))>>)>>)

\* n rows numbered from 0; every third row carries a cell, the others are
\* captions
Ledger(n) ==
    DSDNote(5, <<"5">>, "Ledger",
        [k \in 1..n |->
            IF (k - 1) % 3 = 0 THEN DSDItem(k - 1, FALSE, <<DSDAmount(Some(1000000000))>>)
            ELSE DSDItem(k - 1, TRUE, <<>>)])

\* the notes that reach the judge: some row carries amounts
CallNotes == {Cash, Debt, Twins} \cup {Ledger(n) : n \in 1..MaxItems}

InitCall ==
    /\ call_pc = "start"
    /\ call_note \in CallNotes
    /\ call_requests = <<>>
    /\ call_answers = <<>>
    /\ call_start = 0
    /\ call_all_results = <<>>
    /\ call_responses = <<>>
    /\ call_items = None
    /\ MapIdle
    /\ CalcIdle
    /\ RecIdle
    /\ SemIdle
    /\ JsonIdle
    /\ PatIdle
    /\ DsdIdle
    /\ BndIdle
    /\ ChatIdle

\* _call_llm_reconcile builds the payload of all items and awaits
\* _llm_single_call
CallSingle ==
    /\ call_pc = "start"
    /\ call_pc' = "single"
    /\ call_requests' = <<build_dsd_items_payload(call_note.items)>>
    /\ UNCHANGED <<call_note, call_answers, call_start, call_all_results,
                   call_responses, call_items>>
    /\ UNCHANGED call_others

\* the single call returned an array: it is the answer
CallSingleAnswered ==
    /\ call_pc = "single"
    /\ \E a \in JudgeAnswers(call_requests[1]) :
          /\ a.kind = "list"
          /\ call_answers' = <<a>>
          /\ call_responses' = a.entries
    /\ call_pc' = "returned"
    /\ UNCHANGED <<call_note, call_requests, call_start, call_all_results, call_items>>
    /\ UNCHANGED call_others

\* the single call raised or returned no array: _llm_chunked_call asks
\* about the first chunk
CallSingleFailed ==
    /\ call_pc = "single"
    /\ \E a \in JudgeAnswers(call_requests[1]) :
          /\ a.kind # "list"
          /\ call_answers' = <<a>>
    /\ call_pc' = "chunk"
    /\ call_start' = 0
    /\ call_all_results' = <<>>
    /\ call_requests' = Append(call_requests,
                               build_dsd_items_payload(chunk(call_note.items, 0)))
    /\ UNCHANGED <<call_note, call_responses, call_items>>
    /\ UNCHANGED call_others

\* a loop in which a failed chunk voids the answers gathered before it
extend_results_mut(all_results, a) ==
    IF a.kind = "list" THEN all_results \o a.entries ELSE <<>>

\* all_results after the answer to a chunk: an array extends it, anything
\* else is logged and dropped
extend_results(all_results, a) ==
    IF a.kind = "list" THEN all_results \o a.entries ELSE all_results

\* a chunk call ended and another chunk follows
CallChunkNext ==
    /\ call_pc = "chunk"
    /\ call_start + CHUNK_ITEM_SIZE < Len(call_note.items)
    /\ \E a \in JudgeAnswers(call_requests[Len(call_requests)]) :
          /\ call_answers' = Append(call_answers, a)
          /\ call_all_results' = extend_results(call_all_results, a)
    /\ call_start' = call_start + CHUNK_ITEM_SIZE
    /\ call_requests' = Append(call_requests,
           build_dsd_items_payload(chunk(call_note.items, call_start + CHUNK_ITEM_SIZE)))
    /\ UNCHANGED <<call_pc, call_note, call_responses, call_items>>
    /\ UNCHANGED call_others

\* the call for the last chunk ended: _llm_chunked_call returns all_results
CallChunkLast ==
    /\ call_pc = "chunk"
    /\ call_start + CHUNK_ITEM_SIZE >= Len(call_note.items)
    /\ \E a \in JudgeAnswers(call_requests[Len(call_requests)]) :
          /\ call_answers' = Append(call_answers, a)
          /\ call_all_results' = extend_results(call_all_results, a)
          /\ call_responses' = extend_results(call_all_results, a)
    /\ call_pc' = "returned"
    /\ UNCHANGED <<call_note, call_requests, call_start, call_items>>
    /\ UNCHANGED call_others

\* _build_reconcile_items converts the answer
CallBuild ==
    /\ call_pc = "returned"
    /\ ~build_raises(call_note.items, call_responses)
    /\ call_pc' = "built"
    /\ call_items' = Some(build_reconcile_items(call_note.items, call_responses))
    /\ UNCHANGED <<call_note, call_requests, call_answers, call_start,
                   call_all_results, call_responses>>
    /\ UNCHANGED call_others

\* _build_reconcile_items raises on the answer
CallBuildRaises ==
    /\ call_pc = "returned"
    /\ build_raises(call_note.items, call_responses)
    /\ call_pc' = "raised"
    /\ UNCHANGED <<call_note, call_requests, call_answers, call_start,
                   call_all_results, call_responses, call_items>>
    /\ UNCHANGED call_others

NextCall ==
    \/ CallSingle
    \/ CallSingleAnswered
    \/ CallSingleFailed
    \/ CallChunkNext
    \/ CallChunkLast
    \/ CallBuild
    \/ CallBuildRaises

SpecCall == InitCall /\ [][NextCall]_vars

(***************************************************************************)
(* Properties of the judge calls of one pair.                              *)
(***************************************************************************)
\* the c-th batch of at most 3 consecutive items, c counted from 0
Batch(items, c) ==
    [k \in 1..Min({3, Len(items) - 3 * c}) |-> items[3 * c + k]]

RECURSIVE Concatenated(_)
\* the entries of the answers that are arrays, in the order of the answers
Concatenated(as) ==
    IF as = <<>> THEN <<>>
    ELSE (IF Head(as).kind = "list" THEN Head(as).entries ELSE <<>>)
         \o Concatenated(Tail(as))

\* the single call failed
SingleCallFailed == call_answers # <<>> /\ call_answers[1].kind # "list"

\* C24: when the single call of a pair fails (it raises or the response is
\* no array), the judge is called once per consecutive batch of at most 3
\* items in item order, ceil(n/3) calls for n items, and the fallback
\* result is the concatenation, in batch order, of the responses of the
\* batches that returned an array; a batch that raises or returns something
\* else adds nothing and the later batches are still called.
C24_ChunkedFallback ==
    SingleCallFailed =>
        LET n == Len(call_note.items)
            batches == (n + 2) \div 3
        IN  /\ \A c \in 0..(Len(call_requests) - 2) :
                   /\ c < batches
                   /\ call_requests[c + 2] =
                          build_dsd_items_payload(Batch(call_note.items, c))
            /\ call_pc = "chunk" =>
                   /\ Len(call_requests) = Len(call_answers) + 1
                   /\ call_all_results = Concatenated(Tail(call_answers))
            /\ call_pc \in {"returned", "built", "raised"} =>
                   /\ Len(call_requests) = 1 + batches
                   /\ Len(call_answers) = 1 + batches
                   /\ call_responses = Concatenated(Tail(call_answers))

\* a note of three batches: the single call raised, the first batch returned
\* an entry, the second raised and the third returned an entry; the items
\* were built from the two entries, the first batch's first
C24_Witness ==
    /\ call_pc = "built"
    /\ Len(call_answers) = 4
    /\ call_answers[1].kind = "raise"
    /\ call_answers[2].kind = "list" /\ Len(call_answers[2].entries) = 1
    /\ call_answers[3].kind = "raise"
    /\ call_answers[4].kind = "list" /\ Len(call_answers[4].entries) = 1
    /\ call_responses = call_answers[2].entries \o call_answers[4].entries
    /\ call_answers[2].entries # call_answers[4].entries

\* C25: within the processing of one pair no judge request with the same
\* content is issued twice: after a failed single call every request of
\* the fallback differs from the failed one, also for notes of 3 or fewer
\* items.  (The text of a request is determined by the pair and the
\* payload.)
C25_NoRequestTwice ==
    \A c \in 1..Len(call_requests) : \A d \in 1..Len(call_requests) :
        c < d => call_requests[c] # call_requests[d]

(***************************************************************************)
(* _llm_find_boundaries alone (app/services/dsd_service.py), with the      *)
(* answer of the judge on record.                                          *)
(***************************************************************************)
InitBnd ==
    /\ bnd_pc = "start"
    /\ bnd_segments \in DsdSegmentLists
    /\ bnd_answer = None
    /\ bnd_path = "none"
    /\ bnd_out = <<>>
    /\ MapIdle
    /\ CalcIdle
    /\ RecIdle
    /\ SemIdle
    /\ JsonIdle
    /\ PatIdle
    /\ DsdIdle
    /\ CallIdle
    /\ ChatIdle

\* no paragraph: [] is returned without a call
BndNoParagraphs ==
    /\ bnd_pc = "start"
    /\ para_lines(bnd_segments) = <<>>
    /\ bnd_pc' = "returned"
    /\ UNCHANGED <<bnd_segments, bnd_answer, bnd_path, bnd_out>>
    /\ UNCHANGED bnd_others

\* the request is sent
BndCall ==
    /\ bnd_pc = "start"
    /\ para_lines(bnd_segments) # <<>>
    /\ bnd_pc' = "called"
    /\ UNCHANGED <<bnd_segments, bnd_answer, bnd_path, bnd_out>>
    /\ UNCHANGED bnd_others

\* the judge answered with an array that has a valid entry, and reading the
\* entries did not raise
BndJudged ==
    /\ bnd_pc = "called"
    /\ \E answer \in BoundaryAnswers(bnd_segments) :
          /\ is_judged(bnd_segments, answer)
          /\ bnd_answer' = Some(answer)
          /\ bnd_out' = boundaries_after(bnd_segments, answer)
    /\ bnd_path' = "judged"
    /\ bnd_pc' = "returned"
    /\ UNCHANGED bnd_segments
    /\ UNCHANGED bnd_others

\* anything else: _regex_find_boundaries
BndFallback ==
    /\ bnd_pc = "called"
    /\ \E answer \in BoundaryAnswers(bnd_segments) :
          /\ ~is_judged(bnd_segments, answer)
          /\ bnd_answer' = Some(answer)
          /\ bnd_out' = boundaries_after(bnd_segments, answer)
    /\ bnd_path' = "fallback"
    /\ bnd_pc' = "returned"
    /\ UNCHANGED bnd_segments
    /\ UNCHANGED bnd_others

NextBnd ==
    \/ BndNoParagraphs
    \/ BndCall
    \/ BndJudged
    \/ BndFallback

SpecBnd == InitBnd /\ [][NextBnd]_vars

\* the entries of an answer that are objects with an integer segment_index
\* in the range of the segments
ValidEntries(answer, segments) ==
    SelectSeq(answer.entries,
              LAMBDA b : /\ b.kind = "dict"
                         /\ b.segment_index.t = "num"
                         /\ 0 <= b.segment_index.v
                         /\ b.segment_index.v < Len(segments))

\* C26: on the primary path every returned boundary has an integer
\* segment_index with 0 <= segment_index < number of segments, the entries
\* failing the check being dropped; and, when a paragraph exists, the
\* pattern fallback is used exactly when the judge call raises, returns
\* something that is no array or an empty array, or no entry of the array
\* is valid.
C26_ValidatedOrFallback ==
    (bnd_pc = "returned" /\ bnd_answer # None) =>
        /\ bnd_path = "judged" =>
               /\ \A k \in 1..Len(bnd_out) :
                      /\ 0 <= bnd_out[k].segment_index
                      /\ bnd_out[k].segment_index < Len(bnd_segments)
               /\ Len(bnd_out) = Len(ValidEntries(bnd_answer[1], bnd_segments))
        /\ bnd_path = "fallback" <=>
               \/ bnd_answer[1].kind # "list"
               \/ bnd_answer[1].entries = <<>>
               \/ ValidEntries(bnd_answer[1], bnd_segments) = <<>>

(***************************************************************************)
(* Properties of the chunks of parse_dsd_file.                             *)
(***************************************************************************)
\* the segments with index in [lo, hi), indexes counted from 0
SegmentsIn(segments, lo, hi) == [k \in 1..(hi - lo) |-> segments[lo + k]]

RECURSIVE ChunksJoined(_, _, _)
\* the chunks of the boundaries i, i+1, ... one after the other
ChunksJoined(segments, bs, i) ==
    IF i > Len(bs) THEN <<>>
    ELSE chunk_of(segments, bs, i).segs \o ChunksJoined(segments, bs, i + 1)

\* C27: with the sorted boundaries b_0..b_k, chunk i of the Note Builder is
\* exactly the segments with index in [b_i, b_{i+1}) and the last chunk is
\* [b_k, end): the chunks are disjoint and in segment order, together they
\* hold every segment from b_0 to the end exactly once, the segments before
\* b_0 are in no chunk, and two boundaries at the same index give an empty
\* chunk, not an error.
C27_ChunksPartition ==
    boundaries # <<>> =>
        LET n == Len(boundaries)
            lo(i) == boundaries[i].segment_index
            hi(i) == IF i < n THEN boundaries[i + 1].segment_index ELSE Len(dsd_segments)
        IN  /\ \A i \in 1..n :
                   /\ lo(i) <= hi(i)
                   /\ chunk_of(dsd_segments, boundaries, i).segs =
                          SegmentsIn(dsd_segments, lo(i), hi(i))
                   /\ lo(i) = hi(i) => chunk_of(dsd_segments, boundaries, i).segs = <<>>
            /\ ChunksJoined(dsd_segments, boundaries, 1) =
                   SegmentsIn(dsd_segments, lo(1), Len(dsd_segments))
            /\ Len(ChunksJoined(dsd_segments, boundaries, 1)) = Len(dsd_segments) - lo(1)

\* two boundaries at the second of two segments: the first chunk is empty,
\* the second holds the second segment, the first segment is in no chunk,
\* and both extraction tasks ran
C27_Witness ==
    /\ dsd_pc = "returned"
    /\ Len(dsd_segments) = 2
    /\ Len(boundaries) = 2
    /\ boundaries[1].segment_index = 1
    /\ boundaries[2].segment_index = 1
    /\ chunk_of(dsd_segments, boundaries, 1).segs = <<>>
    /\ chunk_of(dsd_segments, boundaries, 2).segs = <<dsd_segments[2]>>
    /\ \A i \in 1..2 : note_tasks[i].how # "pending"

\* C28: when reconcile_all returns for a mapping list that is not empty,
\* the completion counter equals the number of mappings: every pair, a pair
\* whose reconciliation failed included, was counted and reported to the
\* progress callback exactly once, so the last reported percentage is 90.
C28_AllPairsCounted ==
    (rec_pc = "returned" /\ rec_mappings # <<>>) =>
        /\ completed = Len(rec_mappings)
        /\ Len(progress) = Len(rec_mappings)
        /\ progress[Len(progress)] = 90

(***************************************************************************)
(* PwCLLMClient.chat (app/utils/llm_client.py): one chat call and its HTTP *)
(* attempts.  An attempt ends with the content ("ok"), an HTTPError with   *)
(* a status (0: the error carries no response), a ConnectionError, or any  *)
(* other exception (a read timeout, a body that is not the expected JSON). *)
(***************************************************************************)
max_retries == 5

RETRYABLE_STATUS == {429, 500, 502, 503, 504}

Outcome(kind, status) == [kind |-> kind, status |-> status]

\* what requests.post and the lines after it can do in one attempt
Outcomes ==
    {Outcome("ok", 200), Outcome("conn", 0), Outcome("other", 0)}
    \cup {Outcome("http", s) : s \in RETRYABLE_STATUS \cup {0, 400, 404}}

\* a loop that also retries after the last attempt
can_retry_mut(attempt) == attempt < max_retries

\* attempt < max_retries - 1
can_retry(attempt) == attempt < max_retries - 1

\* wait = 2 ** attempt
wait_of(attempt) == 2 ^ attempt

InitChat ==
    /\ chat_pc = "attempt"
    /\ chat_attempt = 0
    /\ chat_outcomes = <<>>
    /\ chat_waits = <<>>
    /\ MapIdle
    /\ CalcIdle
    /\ RecIdle
    /\ SemIdle
    /\ JsonIdle
    /\ PatIdle
    /\ DsdIdle
    /\ CallIdle
    /\ BndIdle

\* the attempt ended with outcome o and the loop sleeps and goes on: the
\* next iteration, or the end of the for loop, after which chat returns
\* nothing
Retry(o) ==
    /\ chat_outcomes' = Append(chat_outcomes, o)
    /\ chat_waits' = Append(chat_waits, wait_of(chat_attempt))
    /\ chat_attempt' = chat_attempt + 1
    /\ chat_pc' = IF chat_attempt + 1 < max_retries THEN "attempt" ELSE "fell_out"

\* the attempt ended with outcome o and chat ends in position pc
End(o, pc) ==
    /\ chat_outcomes' = Append(chat_outcomes, o)
    /\ chat_pc' = pc
    /\ UNCHANGED <<chat_attempt, chat_waits>>

\* the response is good: return content
ChatReturn ==
    /\ chat_pc = "attempt"
    /\ End(Outcome("ok", 200), "returned")
    /\ UNCHANGED chat_others

\* HTTPError with a retryable status before the last attempt
ChatHttpRetry ==
    /\ chat_pc = "attempt"
    /\ \E o \in Outcomes :
          /\ o.kind = "http"
          /\ o.status \in RETRYABLE_STATUS /\ can_retry(chat_attempt)
          /\ Retry(o)
    /\ UNCHANGED chat_others

\* HTTPError otherwise: raise
ChatHttpRaise ==
    /\ chat_pc = "attempt"
    /\ \E o \in Outcomes :
          /\ o.kind = "http"
          /\ ~(o.status \in RETRYABLE_STATUS /\ can_retry(chat_attempt))
          /\ End(o, "raised")
    /\ UNCHANGED chat_others

\* ConnectionError before the last attempt
ChatConnRetry ==
    /\ chat_pc = "attempt"
    /\ can_retry(chat_attempt)
    /\ Retry(Outcome("conn", 0))
    /\ UNCHANGED chat_others

\* ConnectionError in the last attempt: raise
ChatConnRaise ==
    /\ chat_pc = "attempt"
    /\ ~can_retry(chat_attempt)
    /\ End(Outcome("conn", 0), "raised")
    /\ UNCHANGED chat_others

\* an exception no except clause names leaves chat at once
ChatOtherRaise ==
    /\ chat_pc = "attempt"
    /\ End(Outcome("other", 0), "raised")
    /\ UNCHANGED chat_others

NextChat ==
    \/ ChatReturn
    \/ ChatHttpRetry
    \/ ChatHttpRaise
    \/ ChatConnRetry
    \/ ChatConnRaise
    \/ ChatOtherRaise

SpecChat == InitChat /\ [][NextChat]_vars

\* the outcome is an error the loop retries on
Retryable(o) ==
    \/ o.kind = "conn"
    \/ o.kind = "http" /\ o.status \in {429, 500, 502, 503, 504}

\* C29: one chat call makes at most 5 HTTP attempts and ends by returning
\* the content or raising, never by leaving the loop without a result; a
\* retry happens only after a retryable status (429, 500, 502, 503, 504) or
\* a connection error, after a wait of 2^attempt seconds (1, 2, 4, 8); an
\* HTTP error that is not retryable raises when it first occurs, and the
\* error of the 5th attempt is always raised.
C29_BoundedRetries ==
    LET n == Len(chat_outcomes)
        ended == chat_pc \in {"returned", "raised"}
    IN  /\ n <= 5
        /\ chat_pc \in {"attempt", "returned", "raised"}
        /\ chat_pc = "attempt" => n < 5
        /\ Len(chat_waits) = (IF ended THEN n - 1 ELSE n)
        /\ \A k \in 1..Len(chat_waits) :
               /\ Retryable(chat_outcomes[k])
               /\ chat_waits[k] = <<1, 2, 4, 8>>[k]
        /\ \A k \in 1..n :
               ~Retryable(chat_outcomes[k]) => k = n /\ ended
        /\ chat_pc = "returned" <=> (n > 0 /\ chat_outcomes[n].kind = "ok")
        /\ (n > 0 /\ chat_outcomes[n].kind # "ok" /\ (n = 5 \/ ~Retryable(chat_outcomes[n]))) =>
               chat_pc = "raised"

\* four retries, after a 429, a connection error, a 503 and a 500, with the
\* waits 1, 2, 4 and 8, and the 504 of the fifth attempt was raised
C29_Witness ==
    /\ chat_pc = "raised"
    /\ chat_waits = <<1, 2, 4, 8>>
    /\ chat_outcomes = <<Outcome("http", 429), Outcome("conn", 0), Outcome("http", 503),
                         Outcome("http", 500), Outcome("http", 504)>>

\* the amount_id at a position of the items built for the pair
BuiltIdAt(p) == call_items[1][p[1]].amount_matches[p[2]].amount_id

\* C30: in the result of a judged pair all amount_ids are pairwise
\* distinct and the set of amount_ids of the emitted AmountMatch records is
\* the set of amount_ids sent to the judge in the single-call request, so
\* an entry of the response is applied to at most one domestic cell; for
\* every item list the Note Builder can produce, item ids taken from the
\* extraction judge included.
C30_AmountIdsDistinct ==
    call_pc = "built" =>
        LET pos == MatchPositions([items |-> call_items[1]])
        IN  /\ \A p \in pos : \A q \in pos : p # q => BuiltIdAt(p) # BuiltIdAt(q)
            /\ {BuiltIdAt(p) : p \in pos} =
                   {call_requests[1][k].amount_id : k \in 1..Len(call_requests[1])}

==============================================================================
